---- MODULE Spec2Model ----
(***************************************************************************)
(* Model of the wargame_mcp ingestion and query core:                      *)
(*   chunking.py      chunk_text                                           *)
(*   vectorstore.py   _fallback_store, upsert_chunks, delete_document,     *)
(*                    query, _build_search_results, _cosine_similarity     *)
(*   ingest.py        _ingest_file, ingest_directory                       *)
(*   mcp_tools.py     search_wargame_documents, get_document_span          *)
(*                                                                         *)
(* Representation choices                                                  *)
(*   - a chunk id "{document_id}:{i}" is the pair <<document_id, i>>;      *)
(*   - a document text is [body, n]: an opaque body and its token count;   *)
(*     the decoded text of the token window [s, e) is [body, s, e];        *)
(*   - a tag is a sequence of one-character strings;                       *)
(*   - a score is [k, h, n, d2], the real number (k + n / sqrt(d2)) / h;   *)
(*     min_score is given in thousandths.  Floats are read as reals.       *)
(***************************************************************************)
EXTENDS Integers, Sequences, FiniteSets, TLC

\* ------------------------------------------------------------------ bounds
MaxBatch == 2
MaxTopK == 2
MaxTokens == 2100
MaxHash == 1
MaxTags == 2

\* ------------------------------------------------------- program constants
CHUNK_SIZE_TOKENS == 800
CHUNK_OVERLAP_TOKENS == 200

\* ------------------------------------------------------------ small helpers
Min(a, b) == IF a <= b THEN a ELSE b

Range(s) == {s[i] : i \in 1..Len(s)}

SeqsUpTo(S, n) == UNION {[1..k -> S] : k \in 0..n}

\* x * |x| : order-preserving square, used to compare n / sqrt(d2) exactly
SignedSq(x) == IF x >= 0 THEN x * x ELSE -(x * x)

NoDup(s) == \A i, j \in 1..Len(s) : s[i] = s[j] => i = j

\* --------------------------------------------------------------- documents
\* DocumentMetadata.as_dict restricted to the keys the store operations read
\* (document_id, source, collection, tags); title/year/doctrine are carried
\* through the store untouched and are left out.
DocumentMetadata(document_id, source, collection, tags) ==
    [document_id |-> document_id, source |-> source,
     collection |-> collection, tags |-> tags]

DocumentChunk(id, text, metadata, chunk_index, chunk_count) ==
    [id |-> id, text |-> text, metadata |-> metadata,
     chunk_index |-> chunk_index, chunk_count |-> chunk_count]

\* DocumentChunk.chroma_metadata: the metadata dict plus the chunk fields
chroma_metadata(chunk) ==
    [document_id |-> chunk.metadata.document_id,
     source |-> chunk.metadata.source,
     collection |-> chunk.metadata.collection,
     tags |-> chunk.metadata.tags,
     chunk_index |-> chunk.chunk_index,
     chunk_count |-> chunk.chunk_count]

\* ",".join(tags) over sequences of characters
RECURSIVE JoinTags(_)
JoinTags(tags) ==
    IF Len(tags) = 0 THEN <<>>
    ELSE IF Len(tags) = 1 THEN tags[1]
    ELSE tags[1] \o <<",">> \o JoinTags(Tail(tags))

\* str.split(","): the pieces between commas (always at least one piece)
RECURSIVE SplitComma(_, _, _)
SplitComma(s, cur, acc) ==
    IF Len(s) = 0 THEN Append(acc, cur)
    ELSE IF Head(s) = "," THEN SplitComma(Tail(s), <<>>, Append(acc, cur))
    ELSE SplitComma(Tail(s), Append(cur, Head(s)), acc)

\* str.strip() for the one whitespace character of the model, " "
RECURSIVE LStrip(_)
LStrip(s) == IF Len(s) > 0 /\ Head(s) = " " THEN LStrip(Tail(s)) ELSE s

RECURSIVE RStrip(_)
RStrip(s) ==
    IF Len(s) > 0 /\ s[Len(s)] = " " THEN RStrip(SubSeq(s, 1, Len(s) - 1)) ELSE s

Strip(s) == RStrip(LStrip(s))

\* [t.strip() for t in joined.split(",") if t.strip()]
ParseTags(joined) ==
    LET pieces == SplitComma(joined, <<>>, <<>>)
        stripped == [i \in 1..Len(pieces) |-> Strip(pieces[i])]
    IN SelectSeq(stripped, LAMBDA t : Len(t) > 0)

\* ---------------------------------------------------------------- chunking
\* variant of Boundaries that advances by size plus overlap
RECURSIVE BoundariesGap(_, _)
BoundariesGap(token_count, start) ==
    LET end == Min(token_count, start + CHUNK_SIZE_TOKENS)
    IN IF end >= token_count
       THEN << <<start, end>> >>
       ELSE << <<start, end>> >>
            \o BoundariesGap(token_count,
                             start + (CHUNK_SIZE_TOKENS + CHUNK_OVERLAP_TOKENS))

\* variant of Boundaries that advances by the overlap instead of the stride
RECURSIVE BoundariesOverlapStride(_, _)
BoundariesOverlapStride(token_count, start) ==
    LET end == Min(token_count, start + CHUNK_SIZE_TOKENS)
    IN IF end >= token_count
       THEN << <<start, end>> >>
       ELSE << <<start, end>> >>
            \o BoundariesOverlapStride(token_count, start + CHUNK_OVERLAP_TOKENS)

\* first pass of chunk_text: the (start, end) windows over token_count tokens
RECURSIVE Boundaries(_, _)
Boundaries(token_count, start) ==
    LET end == Min(token_count, start + CHUNK_SIZE_TOKENS)
    IN IF end >= token_count
       THEN << <<start, end>> >>
       ELSE << <<start, end>> >>
            \o Boundaries(token_count,
                          start + (CHUNK_SIZE_TOKENS - CHUNK_OVERLAP_TOKENS))

\* variant of chunk_text that stamps each chunk with the count reached so far
chunk_text_running_count(metadata, text) ==
    IF text.n = 0
    THEN [chunks |-> <<>>, token_count |-> 0]
    ELSE LET boundaries == Boundaries(text.n, 0)
         IN [chunks |->
               [k \in 1..Len(boundaries) |->
                  DocumentChunk(<<metadata.document_id, k - 1>>,
                                [body |-> text.body,
                                 s |-> boundaries[k][1],
                                 e |-> boundaries[k][2]],
                                metadata, k - 1, k)],
             token_count |-> text.n]

\* variant of chunk_text without the early return for an empty token list
chunk_text_no_empty_return(metadata, text) ==
    LET boundaries == Boundaries(text.n, 0)
        chunk_count == Len(boundaries)
    IN [chunks |->
          [k \in 1..chunk_count |->
             DocumentChunk(<<metadata.document_id, k - 1>>,
                           [body |-> text.body,
                            s |-> boundaries[k][1],
                            e |-> boundaries[k][2]],
                           metadata, k - 1, chunk_count)],
        token_count |-> text.n]

\* chunk_text(metadata, text, model) -> ChunkingResult
chunk_text(metadata, text) ==
    IF text.n = 0
    THEN [chunks |-> <<>>, token_count |-> 0]
    ELSE LET boundaries == Boundaries(text.n, 0)
             chunk_count == Len(boundaries)
         IN [chunks |->
               [k \in 1..chunk_count |->
                  DocumentChunk(<<metadata.document_id, k - 1>>,
                                [body |-> text.body,
                                 s |-> boundaries[k][1],
                                 e |-> boundaries[k][2]],
                                metadata, k - 1, chunk_count)],
             token_count |-> text.n]

\* ------------------------------------------------------------ vector store
\* zip(chunks, embeddings, strict=False): pairs up to the shorter length
ZipLen(chunks, embeddings) == Min(Len(chunks), Len(embeddings))

\* the dict appended to the store for one (chunk, vector) pair; the tags list
\* is flattened with ",".join
StoreEntry(chunk, vector) ==
    [id |-> chunk.id, text |-> chunk.text,
     metadata |-> [chroma_metadata(chunk) EXCEPT !.tags = JoinTags(@)],
     embedding |-> vector]

\* variant of UpsertFallback that appends without clearing or replacing
UpsertFallbackAppend(st, chunks, embeddings) ==
    st \o [k \in 1..ZipLen(chunks, embeddings) |-> StoreEntry(chunks[k], embeddings[k])]

\* upsert_chunks, in-memory branch: _fallback_store.clear(), then one append
\* per zipped pair
UpsertFallback(st, chunks, embeddings) ==
    [k \in 1..ZipLen(chunks, embeddings) |-> StoreEntry(chunks[k], embeddings[k])]

\* collection.upsert of the persistent backend: replace the record with the
\* same id in place, append a record whose id is new
RECURSIVE ReplaceById(_, _)
ReplaceById(st, entries) ==
    IF Len(entries) = 0 THEN st
    ELSE LET e == Head(entries)
             present == \E i \in 1..Len(st) : st[i].id = e.id
             next == IF present
                     THEN [i \in 1..Len(st) |-> IF st[i].id = e.id THEN e ELSE st[i]]
                     ELSE Append(st, e)
         IN ReplaceById(next, Tail(entries))

\* collection.upsert validates its arguments: ids must be non-empty and
\* unique and there must be one embedding per id
ChromaUpsertRejects(chunks, embeddings) ==
    LET n == ZipLen(chunks, embeddings)
        ids == [k \in 1..n |-> chunks[k].id]
    IN n = 0 \/ ~NoDup(ids) \/ Len(embeddings) # n

\* variant of UpsertChroma that first drops every stored record of the
\* documents named in the batch
UpsertChromaReplaceDocument(st, chunks, embeddings) ==
    LET docs == {chunks[k].metadata.document_id : k \in 1..ZipLen(chunks, embeddings)}
        kept == SelectSeq(st, LAMBDA entry : entry.metadata.document_id \notin docs)
    IN ReplaceById(kept, [k \in 1..ZipLen(chunks, embeddings) |->
                             StoreEntry(chunks[k], embeddings[k])])

UpsertChroma(st, chunks, embeddings) ==
    ReplaceById(st, [k \in 1..ZipLen(chunks, embeddings) |->
                        StoreEntry(chunks[k], embeddings[k])])

\* upsert_chunks(chunks, embeddings): [store, raised]
upsert_chunks(be, st, chunks, embeddings) ==
    IF be = "fallback"
    THEN [store |-> UpsertFallback(st, chunks, embeddings), raised |-> FALSE]
    ELSE IF ChromaUpsertRejects(chunks, embeddings)
         THEN [store |-> st, raised |-> TRUE]
         ELSE [store |-> UpsertChroma(st, chunks, embeddings), raised |-> FALSE]

\* variant of delete_document that removes nothing
delete_document_noop(be, st, document_id) == st

\* variant of delete_document that empties the store
delete_document_clear(be, st, document_id) == <<>>

\* delete_document(document_id): both branches keep exactly the records whose
\* metadata document_id differs
delete_document(be, st, document_id) ==
    SelectSeq(st, LAMBDA entry : entry.metadata.document_id # document_id)

\* ----------------------------------------------------------------- scoring
RECURSIVE SumTo(_, _)
SumTo(f, n) == IF n = 0 THEN 0 ELSE f[n] + SumTo(f, n - 1)

\* The score 0.0 of the in-memory convention, written in the form (1 + c) / 2
ZeroScore == [k |-> 1, h |-> 2, n |-> -1, d2 |-> 1]

\* _cosine_similarity(vector_a, vector_b): (cosine + 1) / 2, 0.0 for an empty
\* or zero-norm operand.  cosine lies in [-1, 1], so the clamp is the identity
\* over the reals.
cosine_similarity(vector_a, vector_b) ==
    IF Len(vector_a) = 0 \/ Len(vector_b) = 0 THEN ZeroScore
    ELSE LET length == Min(Len(vector_a), Len(vector_b))
             dot == SumTo([i \in 1..length |-> vector_a[i] * vector_b[i]], length)
             na2 == SumTo([i \in 1..length |-> vector_a[i] * vector_a[i]], length)
             nb2 == SumTo([i \in 1..length |-> vector_b[i] * vector_b[i]], length)
         IN IF na2 = 0 \/ nb2 = 0 THEN ZeroScore
            ELSE [k |-> 1, h |-> 2, n |-> dot, d2 |-> na2 * nb2]

\* score = 1 - distance with the cosine distance 1 - cosine of the persistent
\* backend: the raw cosine (0 for a zero-norm operand)
ChromaScore(vector_a, vector_b) ==
    LET length == Min(Len(vector_a), Len(vector_b))
        dot == SumTo([i \in 1..length |-> vector_a[i] * vector_b[i]], length)
        na2 == SumTo([i \in 1..length |-> vector_a[i] * vector_a[i]], length)
        nb2 == SumTo([i \in 1..length |-> vector_b[i] * vector_b[i]], length)
    IN IF na2 = 0 \/ nb2 = 0 THEN [k |-> 0, h |-> 1, n |-> 0, d2 |-> 1]
       ELSE [k |-> 0, h |-> 1, n |-> dot, d2 |-> na2 * nb2]

\* s < t for two scores of one convention (same k and h)
ScoreLess(s, t) == SignedSq(s.n) * t.d2 < SignedSq(t.n) * s.d2

\* score < min_score, min_score in thousandths:
\*   (k + c) / h < m / 1000  <=>  1000 * c < h * m - 1000 * k
BelowMin(score, min_score) ==
    SignedSq(1000 * score.n)
        < SignedSq(score.h * min_score - 1000 * score.k) * score.d2

\* variant of InsertDesc that places a result before the results of equal score
RECURSIVE InsertDescUnstable(_, _)
InsertDescUnstable(sorted, hit) ==
    IF Len(sorted) = 0 THEN <<hit>>
    ELSE IF ~ScoreLess(hit.score, Head(sorted).score)
         THEN <<hit>> \o sorted
         ELSE <<Head(sorted)>> \o InsertDescUnstable(Tail(sorted), hit)

\* list.sort(key=score, reverse=True): stable, descending
RECURSIVE InsertDesc(_, _)
InsertDesc(sorted, hit) ==
    IF Len(sorted) = 0 THEN <<hit>>
    ELSE IF ScoreLess(Head(sorted).score, hit.score)
         THEN <<hit>> \o sorted
         ELSE <<Head(sorted)>> \o InsertDesc(Tail(sorted), hit)

RECURSIVE SortDesc(_, _)
SortDesc(hits, acc) ==
    IF Len(hits) = 0 THEN acc
    ELSE SortDesc(Tail(hits), InsertDesc(acc, Head(hits)))

\* hits[:top_k], Python slice semantics for any integer top_k
SliceTo(hits, top_k) ==
    IF top_k >= 0 THEN SubSeq(hits, 1, Min(top_k, Len(hits)))
    ELSE SubSeq(hits, 1, Len(hits) + top_k)

\* the record a query reports for a stored entry: tags parsed back to a list
SearchResult(entry, score) ==
    [id |-> entry.id, text |-> entry.text, score |-> score,
     metadata |-> [entry.metadata EXCEPT !.tags = ParseTags(@)]]

\* where = {"collection": {"$in": collections}} when collections is non-empty
MatchesWhere(entry, collections) ==
    Len(collections) = 0 \/ entry.metadata.collection \in Range(collections)

\* variant of FallbackHits that never applies the min_score threshold
FallbackHitsNoThreshold(st, vector, min_score, collections) ==
    LET cand == SelectSeq(st, LAMBDA entry : MatchesWhere(entry, collections))
    IN [i \in 1..Len(cand) |->
          SearchResult(cand[i], cosine_similarity(vector, cand[i].embedding))]

\* the loop of the in-memory branch of query: the entries that pass the
\* collection filter and the threshold, as results, in store order
FallbackHits(st, vector, min_score, collections) ==
    LET cand == SelectSeq(st, LAMBDA entry : MatchesWhere(entry, collections))
        scored == [i \in 1..Len(cand) |->
                     SearchResult(cand[i], cosine_similarity(vector, cand[i].embedding))]
    IN SelectSeq(scored, LAMBDA hit : ~BelowMin(hit.score, min_score))

\* query, in-memory branch: scan, filter, score, threshold, sort, slice
QueryFallback(st, vector, top_k, min_score, collections) ==
    SliceTo(SortDesc(FallbackHits(st, vector, min_score, collections), <<>>), top_k)

\* collection.query(query_embeddings, n_results=top_k, where): the n_results
\* nearest records among those matching where, nearest first
ChromaQuery(st, vector, n_results, collections) ==
    LET cand == SelectSeq(st, LAMBDA entry : MatchesWhere(entry, collections))
        scored == [i \in 1..Len(cand) |->
                     SearchResult(cand[i], ChromaScore(vector, cand[i].embedding))]
    IN SubSeq(SortDesc(scored, <<>>), 1, Min(n_results, Len(cand)))

\* _build_search_results(results, min_score): drop the results below min_score
build_search_results(results, min_score) ==
    SelectSeq(results, LAMBDA hit : ~BelowMin(hit.score, min_score))

\* the order of the two paths of query over one list of scored candidates
\* (the results that match where, in store order)

\* in-memory path, lines 173-187: threshold, stable sort, slice
FilterThenTruncate(scored, top_k, min_score) ==
    SliceTo(SortDesc(SelectSeq(scored, LAMBDA hit : ~BelowMin(hit.score, min_score)),
                     <<>>),
            top_k)

TruncateUnsortedThenFilter(scored, top_k, min_score) ==
    build_search_results(SubSeq(scored, 1, Min(top_k, Len(scored))), min_score)

\* persistent path, lines 190-195 and 199-221: the n_results = top_k nearest
\* records, nearest first, then the threshold
TruncateThenFilter(scored, top_k, min_score) ==
    build_search_results(SubSeq(SortDesc(scored, <<>>), 1, Min(top_k, Len(scored))),
                         min_score)

\* variant of query that fails on an empty store instead of returning no hits
query_empty_raises(be, st, vector, top_k, min_score, collections) ==
    IF st = <<>>
    THEN [hits |-> <<>>, raised |-> TRUE]
    ELSE IF be = "fallback"
         THEN [hits |-> QueryFallback(st, vector, top_k, min_score, collections),
               raised |-> FALSE]
         ELSE [hits |-> build_search_results(
                           ChromaQuery(st, vector, top_k, collections), min_score),
               raised |-> top_k <= 0]

\* query(...): [hits, raised]; the persistent backend rejects n_results <= 0
query(be, st, vector, top_k, min_score, collections) ==
    IF be = "fallback"
    THEN [hits |-> QueryFallback(st, vector, top_k, min_score, collections),
          raised |-> FALSE]
    ELSE IF top_k <= 0
         THEN [hits |-> <<>>, raised |-> TRUE]
         ELSE [hits |-> build_search_results(
                           ChromaQuery(st, vector, top_k, collections), min_score),
               raised |-> FALSE]

\* ------------------------------------------------------------- input pools
\* the source files a directory can hold and the sidecar metadata of each
Files == <<"f1", "f2">>

\* metadata_for_document(doc_path): the DocumentMetadata the sidecar of the
\* path resolves to (document_id, collection, merged tags)
metadata_for_document(doc_path) ==
    IF doc_path = "f1"
    THEN DocumentMetadata("d1", "f1", "doctrine", << <<"a">>, <<"b">> >>)
    ELSE DocumentMetadata("d2", "f2", "other", <<>>)

Bodies == {"A"}
TokenChoices == {0, 500, 1000}
TextPool == [body : Bodies, n : TokenChoices]

VecPool == {<<1, 0>>, <<0, 1>>}
QueryVecs == {<<1, 0>>, <<1, 1>>, <<0, 0>>}
MinScores == {0, 500, 1000, 1500}
CollectionFilters == {<<>>, <<"aar", "other">>}

\* chunks handed to upsert_chunks by a direct caller
ChunkPool ==
    { DocumentChunk(<<"d1", 0>>, [body |-> "X", s |-> 0, e |-> 500],
                    DocumentMetadata("d1", "f1", "doctrine", << <<"a">> >>), 0, 2),
      DocumentChunk(<<"d1", 0>>, [body |-> "Y", s |-> 0, e |-> 300],
                    DocumentMetadata("d1", "f1", "aar", <<>>), 0, 1),
      DocumentChunk(<<"d1", 1>>, [body |-> "X", s |-> 600, e |-> 900],
                    DocumentMetadata("d1", "f1", "doctrine", << <<"a">> >>), 1, 2),
      DocumentChunk(<<"d2", 0>>, [body |-> "X", s |-> 0, e |-> 500],
                    DocumentMetadata("d2", "f2", "other", <<>>), 0, 1) }

DocumentIds == {"d1", "d2", "d3"}

\* FakeEmbeddingProvider.embed: one vector per text, in order, each a function
\* of the text alone (the sha256 digest is abstracted to a three-valued map)
FakeEmbed(texts) ==
    [k \in 1..Len(texts) |->
        IF texts[k].body = "Y" THEN <<1, 1>>
        ELSE IF texts[k].s = 0 THEN <<1, 0>> ELSE <<0, 1>>]

ChunkTexts(chunks) == [k \in 1..Len(chunks) |-> chunks[k].text]

\* ------------------------------------------------------------------- state
VARIABLES
    backend,         \* "fallback" when chromadb is not importable, else "chroma"
    store,           \* _fallback_store / the persistent collection: Seq of entries
    files,           \* text of each source file on disk
    op,              \* the last operation performed, its arguments and result
    pc,              \* position of ingest_directory / _ingest_file
    fake,            \* fake_embeddings argument of the running ingest_directory
    listing,         \* the paths iter_documents yields for this run
    pending,         \* the paths not yet taken by the for loop
    attempted,       \* the paths _ingest_file was called with, in order
    cur,             \* locals of the running _ingest_file, and the ids its
                     \* delete_document call removed
    steps,           \* calls made by the running _ingest_file, in order
    document_count, chunk_count, token_count, failed_files,
    workers,         \* locals and position of each concurrent _ingest_file call
    schedule,        \* the store accesses of the concurrent calls, in order
    pathhash,        \* hash(path) of the running interpreter, per source path
    resolved,        \* the document_id the latest ingest of each path used
    mem0_base_url,   \* SETTINGS.mem0_base_url: "None" or the configured url
    mem0_client,     \* the module global _mem0_client: "None" or an instance
    mem0_client_lock,\* _mem0_client_lock: "free" or the thread that holds it
    threads,         \* position, call and result of each thread using the client
    builds,          \* the instances build_mem0_client has constructed, in order
    conv             \* locals and position of run_conversation, the requests
                     \* the client received and the calls the executor received

vars == <<backend, store, files, op, pc, fake, listing, pending, attempted, cur,
          steps, document_count, chunk_count, token_count, failed_files,
          workers, schedule, pathhash, resolved,
          mem0_base_url, mem0_client, mem0_client_lock, threads, builds, conv>>

ingestVars == <<pc, fake, listing, pending, attempted, cur, steps,
                document_count, chunk_count, token_count, failed_files>>

raceVars == <<workers, schedule>>

procVars == <<pathhash, resolved>>

clientVars == <<mem0_base_url, mem0_client, mem0_client_lock, threads, builds>>

agentVars == <<conv>>

sideVars == <<clientVars, agentVars>>

runVars == <<ingestVars, raceVars, procVars, sideVars>>

\* a response of the Responses API as run_conversation reads it
Response(id, status, tool_calls) ==
    [id |-> id, status |-> status, tool_calls |-> tool_calls]

NoResponse == Response(0, "None", <<>>)

NoConversation ==
    [pc |-> "idle", tool_executor |-> "None", response |-> NoResponse,
     rest |-> <<>>, outputs |-> <<>>, executed |-> <<>>, history |-> <<>>,
     invocations |-> <<>>, error |-> "None"]

\* the threads that call get_mem0_client / set_mem0_client, one call each
Threads == {"t1", "t2", "t3"}

NoCall == [pc |-> "idle", call |-> "none", client |-> "None",
           raised |-> FALSE, result |-> "None"]

\* a document_id is [prefix, h]: "{prefix}-{h}"; an id given by the sidecar
\* file has no hash part (h = -1); NoId is the absence of an id
NoId == [prefix |-> <<>>, h |-> -1]

Workers == {"w1", "w2"}
NoWorker == [pc |-> "idle", path |-> "", document_id |-> "",
             result |-> [chunks |-> <<>>, token_count |-> 0],
             vectors |-> <<>>, remaining |-> <<>>, k |-> 0]

NoMetadata == DocumentMetadata("", "", "", <<>>)
NoCur == [path |-> "", metadata |-> NoMetadata, text |-> [body |-> "", n |-> 0],
          result |-> [chunks |-> <<>>, token_count |-> 0], vectors |-> <<>>,
          deleted |-> {}, start |-> <<>>]

Init ==
    /\ backend \in {"fallback", "chroma"}
    /\ store = <<>>
    /\ files = [f \in Range(Files) |-> [body |-> "A", n |-> 1000]]
    /\ op = [name |-> "init"]
    /\ pc = "idle"
    /\ fake = TRUE
    /\ listing = <<>>
    /\ pending = <<>>
    /\ attempted = <<>>
    /\ cur = NoCur
    /\ steps = <<>>
    /\ document_count = 0
    /\ chunk_count = 0
    /\ token_count = 0
    /\ failed_files = <<>>
    /\ workers = [w \in Workers |-> NoWorker]
    /\ schedule = <<>>
    /\ pathhash = [f \in Range(Files) |-> 0]
    /\ resolved = [f \in Range(Files) |-> NoId]
    /\ mem0_base_url = "unloaded"
    /\ mem0_client = "None"
    /\ mem0_client_lock = "free"
    /\ threads = [t \in Threads |-> NoCall]
    /\ builds = <<>>
    /\ conv = NoConversation

\* --------------------------------------------------- direct store operations
Upsert ==
    /\ pc = "idle"
    /\ \E chunks \in SeqsUpTo(ChunkPool, MaxBatch) :
          LET embeddings == FakeEmbed(ChunkTexts(chunks))
              r == upsert_chunks(backend, store, chunks, embeddings)
          IN /\ store' = r.store
             /\ op' = [name |-> "upsert_chunks", by |-> "call", chunks |-> chunks,
                       embeddings |-> embeddings, raised |-> r.raised,
                       before |-> store]
    /\ UNCHANGED <<backend, files, runVars>>

Delete ==
    /\ pc = "idle"
    /\ \E document_id \in DocumentIds :
          /\ store' = delete_document(backend, store, document_id)
          /\ op' = [name |-> "delete_document", by |-> "call",
                    document_id |-> document_id, raised |-> FALSE,
                    before |-> store]
    /\ UNCHANGED <<backend, files, runVars>>

Query ==
    /\ pc = "idle"
    /\ \E vector \in QueryVecs, top_k \in -1..MaxTopK,
          min_score \in MinScores, collections \in CollectionFilters :
          LET r == query(backend, store, vector, top_k, min_score, collections)
          IN op' = [name |-> "query", vector |-> vector, top_k |-> top_k,
                    min_score |-> min_score, collections |-> collections,
                    hits |-> r.hits, raised |-> r.raised]
    /\ UNCHANGED <<backend, store, files, runVars>>

NextStore == Upsert \/ Delete \/ Query

SpecStore == Init /\ [][NextStore]_vars

\* ------------------------------------------------- specification: chunking
\* one call of chunk_text on the text of a document of up to MaxTokens tokens;
\* chunk_text reads and writes nothing but its arguments, so a behaviour
\* holds one call
ChunkText ==
    /\ pc = "idle"
    /\ op.name = "init"
    /\ \E doc_path \in Range(Files), n \in 0..MaxTokens :
          LET metadata == metadata_for_document(doc_path)
              text == [body |-> "A", n |-> n]
          IN op' = [name |-> "chunk_text", by |-> "call",
                    metadata |-> metadata, text |-> text,
                    result |-> chunk_text(metadata, text)]
    /\ UNCHANGED <<backend, store, files, runVars>>

NextChunk == ChunkText

SpecChunk == Init /\ [][NextChunk]_vars

\* ---------------------------------------------------- specification: tools
\* normalize_metadata(metadata): the stored metadata with its list fields
\* restored (tags split back from the comma-joined string)
normalize_metadata(metadata) == [metadata EXCEPT !.tags = ParseTags(@)]

\* collection.get(where={"document_id": document_id}, include=[documents,
\* metadatas]) followed by _flatten: the matching records, in store order
CollectionGet(st, document_id) ==
    SelectSeq(st, LAMBDA entry : entry.metadata.document_id = document_id)

\* the dict get_document_span builds for one stored record; the metadata
\* holds no "chunk_id" key, so "id" is None, written <<>> among the ids
SpanChunk(entry) ==
    [id |-> <<>>, chunk_index |-> entry.metadata.chunk_index,
     text |-> entry.text, metadata |-> normalize_metadata(entry.metadata)]

\* list.sort(key=chunk_index): stable insertion by ascending chunk_index
InsertAsc(sorted, chunk) ==
    LET before == SelectSeq(sorted, LAMBDA c : c.chunk_index <= chunk.chunk_index)
        after == SelectSeq(sorted, LAMBDA c : c.chunk_index > chunk.chunk_index)
    IN before \o <<chunk>> \o after

RECURSIVE SortAsc(_, _)
SortAsc(chunks, acc) ==
    IF chunks = <<>> THEN acc
    ELSE SortAsc(Tail(chunks), InsertAsc(acc, Head(chunks)))

Max(a, b) == IF a >= b THEN a ELSE b

\* variant of SpanWindow whose upper end is exclusive
SpanWindowExclusiveEnd(chunks, center_chunk_index, span) ==
    LET start == Max(0, center_chunk_index - span)
        end == center_chunk_index + span
    IN SelectSeq(chunks, LAMBDA c : start <= c.chunk_index /\ c.chunk_index < end)

\* the window filter of get_document_span: start <= chunk_index <= end
SpanWindow(chunks, center_chunk_index, span) ==
    LET start == Max(0, center_chunk_index - span)
        end == center_chunk_index + span
    IN SelectSeq(chunks, LAMBDA c : start <= c.chunk_index /\ c.chunk_index <= end)

\* what a completed get_document_span call did besides computing its result,
\* in order
SpanEffects ==
    <<"correlation_scope", "track_latency", "get_collection", "collection.get",
      "latencies.observe", "logger.info">>

\* variant of get_document_span that checks span after reading the store
get_document_span_late_check(st, document_id, center_chunk_index, span) ==
    IF span < 0
    THEN [chunks |-> <<>>, raised |-> TRUE, error |-> "span must be >= 0",
          effects |-> SubSeq(SpanEffects, 1, 5)]
    ELSE LET raw == CollectionGet(st, document_id)
             chunks == [k \in 1..Len(raw) |-> SpanChunk(raw[k])]
         IN [chunks |-> IF chunks = <<>> THEN <<>>
                        ELSE SpanWindow(SortAsc(chunks, <<>>),
                                        center_chunk_index, span),
             raised |-> FALSE, error |-> "", effects |-> SpanEffects]

\* get_document_span(document_id, center_chunk_index, span):
\* [chunks, raised, error, effects]
get_document_span(st, document_id, center_chunk_index, span) ==
    IF span < 0
    THEN [chunks |-> <<>>, raised |-> TRUE, error |-> "span must be >= 0",
          effects |-> <<>>]
    ELSE LET raw == CollectionGet(st, document_id)
             chunks == [k \in 1..Len(raw) |-> SpanChunk(raw[k])]
         IN [chunks |-> IF chunks = <<>> THEN <<>>
                        ELSE SpanWindow(SortAsc(chunks, <<>>),
                                        center_chunk_index, span),
             raised |-> FALSE, error |-> "", effects |-> SpanEffects]

\* _serialize_search_hit(hit): the hit as a dict, metadata copied
serialize_search_hit(hit) ==
    [id |-> hit.id, text |-> hit.text, score |-> hit.score,
     metadata |-> hit.metadata]

\* what search_wargame_documents does before query returns, in order; vector
\* stands for provider.embed([query_text])[0]
SearchEffects(be) ==
    <<"correlation_scope", "build_embedding_provider", "track_latency",
      "provider.embed">>
    \o (IF be = "fallback" THEN <<"scan _fallback_store">>
        ELSE <<"get_collection", "collection.query">>)
    \o <<"latencies.observe">>

\* search_wargame_documents(query_text, top_k, min_score, collections, ...):
\* [results, raised, error, effects]; neither it nor query checks top_k or
\* min_score, the only failure is the persistent backend's own n_results error
search_wargame_documents(be, st, vector, top_k, min_score, collections) ==
    LET r == query(be, st, vector, top_k, min_score, collections)
    IN IF r.raised
       THEN [results |-> <<>>, raised |-> TRUE, error |-> "collection.query",
             effects |-> SearchEffects(be)]
       ELSE [results |-> [k \in 1..Len(r.hits) |-> serialize_search_hit(r.hits[k])],
             raised |-> FALSE, error |-> "",
             effects |-> SearchEffects(be) \o <<"logger.info">>]

\* the arguments a caller passes to search_wargame_documents: top_k and
\* min_score inside and outside their documented ranges
SearchTopKs == {-1, 0, 1}
SearchMinScores == {-500, 500, 1500}

SearchWargameDocuments ==
    /\ pc = "idle"
    /\ \E top_k \in SearchTopKs, min_score \in SearchMinScores :
          LET vector == <<1, 0>>
              r == search_wargame_documents(backend, store, vector, top_k,
                                            min_score, <<>>)
          IN op' = [name |-> "search_wargame_documents", vector |-> vector,
                    top_k |-> top_k, min_score |-> min_score,
                    results |-> r.results, raised |-> r.raised,
                    error |-> r.error, effects |-> r.effects, before |-> store]
    /\ UNCHANGED <<backend, store, files, runVars>>

\* the arguments a caller passes to get_document_span
Centers == -1..2
Spans == -1..1

GetDocumentSpan ==
    /\ pc = "idle"
    /\ \E document_id \in DocumentIds, center_chunk_index \in Centers,
          span \in Spans :
          LET r == get_document_span(store, document_id, center_chunk_index, span)
          IN op' = [name |-> "get_document_span", document_id |-> document_id,
                    center_chunk_index |-> center_chunk_index, span |-> span,
                    chunks |-> r.chunks, raised |-> r.raised, error |-> r.error,
                    effects |-> r.effects, before |-> store]
    /\ UNCHANGED <<backend, store, files, runVars>>

\* the collection names in the order of Python's string comparison
CollectionOrder == <<"aar", "doctrine", "intel", "other", "scenario">>

\* variant of list_collections_summary that counts stored chunks
list_collections_summary_chunks(st) ==
    LET names == {st[i].metadata.collection : i \in 1..Len(st)}
        sorted == SelectSeq(CollectionOrder, LAMBDA name : name \in names)
    IN [k \in 1..Len(sorted) |->
          [name |-> sorted[k],
           document_count |->
              Cardinality({i \in 1..Len(st) : st[i].metadata.collection = sorted[k]}),
           description |-> ""]]

\* list_collections_summary(): agg maps each collection among the stored
\* metadatas to the set of its document ids; one summary per key of agg, in
\* sorted key order
list_collections_summary(st) ==
    LET names == {st[i].metadata.collection : i \in 1..Len(st)}
        agg == [name \in names |->
                  {st[i].metadata.document_id :
                     i \in {j \in 1..Len(st) : st[j].metadata.collection = name}}]
        sorted == SelectSeq(CollectionOrder, LAMBDA name : name \in names)
    IN [k \in 1..Len(sorted) |->
          [name |-> sorted[k], document_count |-> Cardinality(agg[sorted[k]]),
           description |-> ""]]

ListCollectionsSummary ==
    /\ pc = "idle"
    /\ op' = [name |-> "list_collections_summary",
              collections |-> list_collections_summary(store)]
    /\ UNCHANGED <<backend, store, files, runVars>>

\* a chunk of a third document in a collection that another document uses
ThirdChunk ==
    DocumentChunk(<<"d3", 0>>, [body |-> "X", s |-> 0, e |-> 500],
                  DocumentMetadata("d3", "f3", "doctrine", <<>>), 0, 1)

\* upsert_chunks([ThirdChunk], ...) by a caller
UpsertThird ==
    /\ pc = "idle"
    /\ LET embeddings == FakeEmbed(ChunkTexts(<<ThirdChunk>>))
           r == upsert_chunks(backend, store, <<ThirdChunk>>, embeddings)
       IN /\ store' = r.store
          /\ op' = [name |-> "upsert_chunks", by |-> "call",
                    chunks |-> <<ThirdChunk>>, embeddings |-> embeddings,
                    raised |-> r.raised, before |-> store]
    /\ UNCHANGED <<backend, files, runVars>>

NextTools ==
    \/ Upsert \/ Delete \/ GetDocumentSpan \/ SearchWargameDocuments
    \/ ListCollectionsSummary \/ UpsertThird

SpecTools == Init /\ [][NextTools]_vars

\* -------------------------------------- specification: concurrent ingests
\* Two callers run _ingest_file at once, threads over the in-memory table or
\* clients of the persistent collection; nothing in _ingest_file, delete_document
\* or upsert_chunks takes a lock.  A step is one access to the shared store.
\* On the persistent backend each collection call is one step.  On the
\* in-memory backend delete_document is two steps (build `remaining`, assign it
\* to the table) and upsert_chunks is the clear followed by one step per append.

\* _ingest_file run alone before the concurrent calls: the generation that the
\* later calls replace
RaceSeed ==
    /\ pc = "idle"
    /\ schedule = <<>>
    /\ \A w \in Workers : workers[w].pc = "idle"
    /\ \E path \in Range(Files) :
          LET metadata == metadata_for_document(path)
              result == chunk_text(metadata, files[path])
              vectors == FakeEmbed(ChunkTexts(result.chunks))
              r == upsert_chunks(backend,
                                 delete_document(backend, store, metadata.document_id),
                                 result.chunks, vectors)
          IN /\ store' = IF r.raised
                         THEN delete_document(backend, store, metadata.document_id)
                         ELSE r.store
             /\ schedule' = <<[w |-> "seed", step |-> "ingest"]>>
             /\ op' = [name |-> "race", w |-> "seed", step |-> "ingest", path |-> path]
    /\ UNCHANGED <<backend, files, ingestVars, procVars, sideVars, workers>>

\* a file changes on disk between or during the concurrent calls
RaceEdit ==
    /\ pc = "idle"
    /\ schedule # <<>>
    /\ \E w \in Workers : workers[w].pc = "idle"
    /\ \E f \in Range(Files), text \in TextPool :
          /\ text # files[f]
          /\ files' = [files EXCEPT ![f] = text]
          /\ op' = [name |-> "edit", path |-> f]
    /\ UNCHANGED <<backend, store, ingestVars, procVars, sideVars, raceVars>>

\* lines 58-60 of _ingest_file: metadata, read_text, chunk_text
RaceBegin(w) ==
    /\ workers[w].pc = "idle"
    /\ schedule # <<>>
    /\ \E path \in Range(Files) :
          LET metadata == metadata_for_document(path)
              result == chunk_text(metadata, files[path])
          IN /\ workers' = [workers EXCEPT ![w] =
                   [NoWorker EXCEPT
                      !.pc = IF backend = "fallback" THEN "snapshot" ELSE "delete",
                      !.path = path, !.document_id = metadata.document_id,
                      !.result = result]]
             /\ op' = [name |-> "race", w |-> w, step |-> "begin", path |-> path]
    /\ UNCHANGED <<backend, store, files, ingestVars, procVars, sideVars, schedule>>

\* the provider call of lines 62-63 touches nothing shared: it is taken with
\* the store access before it
Embedded(w) == FakeEmbed(ChunkTexts(workers[w].result.chunks))

RaceStep(w, step) ==
    /\ schedule' = Append(schedule, [w |-> w, step |-> step])
    /\ op' = [name |-> "race", w |-> w, step |-> step, path |-> workers[w].path]
    /\ UNCHANGED <<backend, files, ingestVars, procVars, sideVars>>

\* delete_document, persistent backend: collection.delete(where=...)
RaceDelete(w) ==
    /\ workers[w].pc = "delete"
    /\ store' = delete_document(backend, store, workers[w].document_id)
    /\ workers' = [workers EXCEPT ![w].pc = "upsert", ![w].vectors = Embedded(w)]
    /\ RaceStep(w, "delete")

\* upsert_chunks, persistent backend: collection.upsert(...)
RaceUpsert(w) ==
    /\ workers[w].pc = "upsert"
    /\ LET r == upsert_chunks(backend, store, workers[w].result.chunks,
                              workers[w].vectors)
       IN /\ store' = r.store
          /\ workers' = [workers EXCEPT ![w].pc = IF r.raised THEN "failed" ELSE "done"]
    /\ RaceStep(w, "upsert")

\* delete_document, in-memory backend: remaining = [entry for entry in ...]
RaceSnapshot(w) ==
    /\ workers[w].pc = "snapshot"
    /\ workers' = [workers EXCEPT
                     ![w].pc = "assign",
                     ![w].remaining =
                        delete_document(backend, store, workers[w].document_id)]
    /\ store' = store
    /\ RaceStep(w, "snapshot")

\* delete_document, in-memory backend: _fallback_store[:] = remaining
RaceAssign(w) ==
    /\ workers[w].pc = "assign"
    /\ store' = workers[w].remaining
    /\ workers' = [workers EXCEPT ![w].pc = "clear", ![w].vectors = Embedded(w)]
    /\ RaceStep(w, "assign")

\* upsert_chunks, in-memory backend: _fallback_store.clear()
RaceClear(w) ==
    /\ workers[w].pc = "clear"
    /\ store' = <<>>
    /\ workers' = [workers EXCEPT
                     ![w].pc = IF ZipLen(workers[w].result.chunks,
                                         workers[w].vectors) = 0
                               THEN "done" ELSE "append",
                     ![w].k = 1]
    /\ RaceStep(w, "clear")

\* upsert_chunks, in-memory backend: one pass of the loop, one append
RaceAppend(w) ==
    /\ workers[w].pc = "append"
    /\ LET k == workers[w].k
       IN /\ store' = Append(store, StoreEntry(workers[w].result.chunks[k],
                                               workers[w].vectors[k]))
          /\ workers' = [workers EXCEPT
                           ![w].pc = IF k = ZipLen(workers[w].result.chunks,
                                                   workers[w].vectors)
                                     THEN "done" ELSE "append",
                           ![w].k = k + 1]
    /\ RaceStep(w, "append")

NextRace ==
    \/ RaceSeed
    \/ RaceEdit
    \/ \E w \in Workers :
          \/ RaceBegin(w)
          \/ RaceDelete(w)
          \/ RaceUpsert(w)
          \/ RaceSnapshot(w)
          \/ RaceAssign(w)
          \/ RaceClear(w)
          \/ RaceAppend(w)

SpecRace == Init /\ [][NextRace]_vars

\* ------------------------------------ specification: ingests across processes
\* A title and a slug are sequences of one-character strings.
IsAlnum(c) == c \in {"f", "F", "d", "1", "2"}
Lower(c) == IF c = "F" THEN "f" ELSE c

\* "-".join(filter(None, slug.split("-"))) on a text already mapped to
\* lower-case letters, digits and "-": runs of "-" collapse, none leads or trails
RECURSIVE JoinSegments(_, _)
JoinSegments(safe, acc) ==
    IF safe = <<>>
    THEN IF acc # <<>> /\ acc[Len(acc)] = "-" THEN SubSeq(acc, 1, Len(acc) - 1)
         ELSE acc
    ELSE IF Head(safe) = "-"
         THEN IF acc = <<>> \/ acc[Len(acc)] = "-"
              THEN JoinSegments(Tail(safe), acc)
              ELSE JoinSegments(Tail(safe), Append(acc, "-"))
         ELSE JoinSegments(Tail(safe), Append(acc, Head(safe)))

\* slugify(text)
slugify(text) ==
    JoinSegments([i \in 1..Len(text) |->
                    IF IsAlnum(text[i]) THEN Lower(text[i]) ELSE "-"], <<>>)

\* build_document_id(path, title), h standing for hash(path) in the running
\* interpreter
build_document_id(h, title) ==
    IF title # <<>>
    THEN [prefix |-> slugify(title), h |-> h % (10^8)]
    ELSE [prefix |-> <<"d", "o", "c">>, h |-> h % (10^12)]

\* the sidecar file <path>.meta.yml of each source file: f1 has one that
\* gives a document_id, f2 has none and takes its title from the file stem
Sidecar(doc_path) ==
    IF doc_path = "f1"
    THEN [present |-> TRUE, title |-> <<"F", " ", "1">>,
          document_id |-> [prefix |-> <<"d", "1">>, h |-> -1]]
    ELSE [present |-> FALSE, title |-> <<>>, document_id |-> NoId]

\* doc_path.stem.replace("_", " ")
StemTitle(doc_path) ==
    IF doc_path = "f1" THEN <<"f", "1">> ELSE <<"F", " ", "2">>

\* lines 68-74 of metadata_for_document: the document_id of a source file
resolve_document_id(doc_path, h) ==
    LET yaml_data == Sidecar(doc_path)
        title == IF yaml_data.present THEN yaml_data.title ELSE StemTitle(doc_path)
        document_id == IF yaml_data.present THEN yaml_data.document_id ELSE NoId
    IN IF document_id # NoId THEN document_id
       ELSE build_document_id(h, title)

\* the hash values a path can take
HashValues == 0..MaxHash

\* a new interpreter starts: str hashes are keyed afresh (PYTHONHASHSEED is
\* random unless set) and the in-memory table starts empty; the persistent
\* collection is kept on disk
NewProcess ==
    /\ pc = "idle"
    /\ \E hashes \in [Range(Files) -> HashValues] :
          /\ hashes # pathhash
          /\ pathhash' = hashes
    /\ store' = IF backend = "fallback" THEN <<>> ELSE store
    /\ op' = [name |-> "process"]
    /\ UNCHANGED <<backend, files, ingestVars, raceVars, sideVars, resolved>>

\* _ingest_file(path) run to its end in the current process, with the
\* document_id metadata_for_document resolves there
RunIngest ==
    /\ pc = "idle"
    /\ \E path \in Range(Files) :
          LET document_id == resolve_document_id(path, pathhash[path])
              base == metadata_for_document(path)
              metadata == DocumentMetadata(document_id, base.source,
                                           base.collection, base.tags)
              result == chunk_text(metadata, files[path])
              vectors == FakeEmbed(ChunkTexts(result.chunks))
              deleted == delete_document(backend, store, document_id)
              r == upsert_chunks(backend, deleted, result.chunks, vectors)
          IN /\ store' = IF r.raised THEN deleted ELSE r.store
             /\ resolved' = [resolved EXCEPT ![path] = document_id]
             /\ op' = [name |-> "run_ingest", path |-> path,
                       document_id |-> document_id, previous |-> resolved[path],
                       chunks |-> result.chunks, raised |-> r.raised,
                       before |-> store]
    /\ UNCHANGED <<backend, files, ingestVars, raceVars, sideVars, pathhash>>


\* ------------------------------------------------------------------ ingest
\* a source file is edited on disk between two runs
EditFile ==
    /\ pc = "idle"
    /\ \E f \in Range(Files), text \in TextPool :
          /\ text # files[f]
          /\ files' = [files EXCEPT ![f] = text]
          /\ op' = [name |-> "edit", path |-> f]
    /\ UNCHANGED <<backend, store, runVars>>

\* the listings iter_documents can yield: the supported files present
Listings == {<<>>, <<"f1">>, <<"f2">>, <<"f1", "f2">>}

\* ingest_directory entry: counters zeroed, failed_files empty, loop not begun
StartIngest ==
    /\ pc = "idle"
    /\ \E dir \in Listings, fk \in BOOLEAN :
          /\ listing' = dir
          /\ pending' = dir
          /\ fake' = fk
    /\ pc' = "loop"
    /\ attempted' = <<>>
    /\ cur' = NoCur
    /\ steps' = <<>>
    /\ document_count' = 0
    /\ chunk_count' = 0
    /\ token_count' = 0
    /\ failed_files' = <<>>
    /\ op' = [name |-> "start"]
    /\ UNCHANGED <<raceVars, procVars, sideVars, backend, store, files>>

\* for file_path in iter_documents(input_dir): call _ingest_file on the next
NextFile ==
    /\ pc = "loop"
    /\ pending # <<>>
    /\ cur' = [NoCur EXCEPT !.path = Head(pending), !.start = store]
    /\ pending' = Tail(pending)
    /\ attempted' = Append(attempted, Head(pending))
    /\ steps' = <<>>
    /\ pc' = "metadata"
    /\ op' = [name |-> "_ingest_file", path |-> Head(pending)]
    /\ UNCHANGED <<raceVars, procVars, sideVars, backend, store, files, fake, listing,
                   document_count, chunk_count, token_count, failed_files>>

\* the RuntimeError message _ingest_file raises for an exception class
FailureMessage(err, path) ==
    IF err = "FileNotFoundError" THEN <<"File not found", path>>
    ELSE IF err = "PermissionError" THEN <<"Permission denied", path>>
    ELSE <<"Failed to ingest", path>>

\* variant of FileFailed in which a failure ends the loop: the files still
\* pending are dropped
FileFailedAbort(step, err) ==
    /\ failed_files' = Append(failed_files, <<cur.path, FailureMessage(err, cur.path)>>)
    /\ steps' = Append(steps, [step |-> step, ok |-> FALSE])
    /\ pc' = "loop"
    /\ cur' = NoCur
    /\ pending' = <<>>
    /\ UNCHANGED <<raceVars, procVars, sideVars, backend, files, fake, listing, attempted,
                   document_count, chunk_count, token_count>>

\* variant of FileFailed in which the failed file is counted as a document
\* with the chunks and tokens computed so far
FileFailedCounted(step, err) ==
    /\ failed_files' = Append(failed_files, <<cur.path, FailureMessage(err, cur.path)>>)
    /\ steps' = Append(steps, [step |-> step, ok |-> FALSE])
    /\ pc' = "loop"
    /\ cur' = NoCur
    /\ document_count' = document_count + 1
    /\ chunk_count' = chunk_count + Len(cur.result.chunks)
    /\ token_count' = token_count + cur.result.token_count
    /\ UNCHANGED <<raceVars, procVars, sideVars, backend, files, fake, listing, pending, attempted>>

\* an exception in _ingest_file: wrapped, re-raised, caught by the loop of
\* ingest_directory, which records (file_path, message) and goes on
FileFailed(step, err) ==
    /\ failed_files' = Append(failed_files, <<cur.path, FailureMessage(err, cur.path)>>)
    /\ steps' = Append(steps, [step |-> step, ok |-> FALSE])
    /\ pc' = "loop"
    /\ cur' = NoCur
    /\ UNCHANGED <<raceVars, procVars, sideVars, backend, files, fake, listing, pending, attempted,
                   document_count, chunk_count, token_count>>

\* a step of _ingest_file that returned: the next statement is reached
StepDone(step, next, newCur) ==
    /\ cur' = newCur
    /\ steps' = Append(steps, [step |-> step, ok |-> TRUE])
    /\ pc' = next
    /\ UNCHANGED <<raceVars, procVars, sideVars, backend, files, fake, listing, pending, attempted,
                   document_count, chunk_count, token_count, failed_files>>

\* metadata = metadata_for_document(path)
IngestMetadata ==
    /\ pc = "metadata"
    /\ \E err \in {"none", "PermissionError", "Exception"} :
          /\ op' = [name |-> "metadata_for_document", path |-> cur.path, err |-> err,
                    start |-> cur.start]
          /\ IF err = "none"
             THEN StepDone("metadata", "read",
                           [cur EXCEPT !.metadata = metadata_for_document(cur.path)])
             ELSE FileFailed("metadata", err)
    /\ UNCHANGED store

\* text = read_text(path)
IngestRead ==
    /\ pc = "read"
    /\ \E err \in {"none", "FileNotFoundError", "PermissionError", "Exception"} :
          /\ op' = [name |-> "read_text", path |-> cur.path, err |-> err,
                    start |-> cur.start]
          /\ IF err = "none"
             THEN StepDone("read", "chunk", [cur EXCEPT !.text = files[cur.path]])
             ELSE FileFailed("read", err)
    /\ UNCHANGED store

\* variant of IngestChunk after which the embedding is requested at once,
\* the delete of the stored chunks being left out
IngestChunkSkipDelete ==
    /\ pc = "chunk"
    /\ \E err \in {"none", "Exception"} :
          /\ op' = [name |-> "chunk_text", path |-> cur.path, err |-> err,
                    start |-> cur.start]
          /\ IF err = "none"
             THEN StepDone("chunk", "embed",
                           [cur EXCEPT !.result = chunk_text(cur.metadata, cur.text)])
             ELSE FileFailed("chunk", err)
    /\ UNCHANGED store

\* result = chunk_text(metadata, text, SETTINGS.embedding_model)
IngestChunk ==
    /\ pc = "chunk"
    /\ \E err \in {"none", "Exception"} :
          /\ op' = [name |-> "chunk_text", path |-> cur.path, err |-> err,
                    start |-> cur.start]
          /\ IF err = "none"
             THEN StepDone("chunk", "delete",
                           [cur EXCEPT !.result = chunk_text(cur.metadata, cur.text)])
             ELSE FileFailed("chunk", err)
    /\ UNCHANGED store

\* delete_document(metadata.document_id); only the persistent backend can fail
IngestDelete ==
    /\ pc = "delete"
    /\ \E err \in {"none"} \cup (IF backend = "chroma" THEN {"Exception"} ELSE {}) :
          /\ op' = [name |-> "delete_document", by |-> "ingest",
                    document_id |-> cur.metadata.document_id,
                    raised |-> (err # "none"), before |-> store,
                    start |-> cur.start]
          /\ IF err = "none"
             THEN /\ store' = delete_document(backend, store, cur.metadata.document_id)
                  /\ StepDone("delete", "embed",
                              [cur EXCEPT !.deleted =
                                  {store[i].id : i \in
                                     {j \in 1..Len(store) :
                                        store[j].metadata.document_id
                                           = cur.metadata.document_id}}])
             ELSE /\ store' = store
                  /\ FileFailed("delete", err)

\* provider = build_embedding_provider(fake); vectors = provider.embed(texts):
\* the deterministic provider cannot fail, the remote one can, and returns
\* one vector per text
IngestEmbed ==
    /\ pc = "embed"
    /\ LET texts == ChunkTexts(cur.result.chunks)
       IN \/ /\ fake
             /\ op' = [name |-> "embed", path |-> cur.path, err |-> "none",
                    start |-> cur.start]
             /\ StepDone("embed", "upsert", [cur EXCEPT !.vectors = FakeEmbed(texts)])
          \/ /\ ~fake
             /\ \E vectors \in [1..Len(texts) -> VecPool] :
                   /\ op' = [name |-> "embed", path |-> cur.path, err |-> "none",
                    start |-> cur.start]
                   /\ StepDone("embed", "upsert", [cur EXCEPT !.vectors = vectors])
          \/ /\ ~fake
             /\ op' = [name |-> "embed", path |-> cur.path, err |-> "Exception",
                    start |-> cur.start]
             /\ FileFailed("embed", "Exception")
    /\ UNCHANGED store

\* _ingest_file returned (chunks, tokens): the loop body adds to the counters
FileIngested ==
    /\ document_count' = document_count + 1
    /\ chunk_count' = chunk_count + Len(cur.result.chunks)
    /\ token_count' = token_count + cur.result.token_count
    /\ steps' = Append(steps, [step |-> "upsert", ok |-> TRUE])
    /\ pc' = "loop"
    /\ cur' = NoCur
    /\ UNCHANGED <<raceVars, procVars, sideVars, backend, files, fake, listing, pending, attempted, failed_files>>

\* upsert_chunks(result.chunks, vectors); return result.chunks, token_count
IngestUpsert ==
    /\ pc = "upsert"
    /\ \E err \in {"none"} \cup (IF backend = "chroma" THEN {"Exception"} ELSE {}) :
          LET r == upsert_chunks(backend, store, cur.result.chunks, cur.vectors)
              raised == r.raised \/ err # "none"
          IN /\ op' = [name |-> "upsert_chunks", by |-> "ingest",
                       chunks |-> cur.result.chunks, embeddings |-> cur.vectors,
                       raised |-> raised, before |-> store,
                       document_id |-> cur.metadata.document_id,
                       deleted |-> cur.deleted, start |-> cur.start]
             /\ IF raised
                THEN /\ store' = store
                     /\ FileFailed("upsert", "Exception")
                ELSE /\ store' = r.store
                     /\ FileIngested

\* the loop is exhausted: the summary is built, printed and returned
Finish ==
    /\ pc = "loop"
    /\ pending = <<>>
    /\ op' = [name |-> "ingest_directory", raised |-> FALSE,
              listing |-> listing, attempted |-> attempted,
              failed_files |-> failed_files,
              summary |-> [document_count |-> document_count,
                           chunk_count |-> chunk_count,
                           token_count |-> token_count]]
    /\ pc' = "idle"
    /\ listing' = <<>>
    /\ attempted' = <<>>
    /\ steps' = <<>>
    /\ document_count' = 0
    /\ chunk_count' = 0
    /\ token_count' = 0
    /\ failed_files' = <<>>
    /\ UNCHANGED <<raceVars, procVars, sideVars, backend, store, files, fake, pending, cur>>

NextIngest ==
    \/ EditFile \/ StartIngest \/ NextFile
    \/ IngestMetadata \/ IngestRead \/ IngestChunk
    \/ IngestDelete \/ IngestEmbed \/ IngestUpsert
    \/ Finish

SpecIngest == Init /\ [][NextIngest]_vars

\* ------------------------------------------ specification: tag round trip
\* merge_tags(*tag_sets) over the tags of all sets in order: strip each, drop
\* the empty ones and those seen before
RECURSIVE MergeInto(_, _)
MergeInto(raw, merged) ==
    IF raw = <<>> THEN merged
    ELSE LET tag_norm == Strip(Head(raw))
         IN IF tag_norm = <<>> \/ tag_norm \in Range(merged)
            THEN MergeInto(Tail(raw), merged)
            ELSE MergeInto(Tail(raw), Append(merged, tag_norm))

merge_tags(tag_set) == MergeInto(tag_set, <<>>)

\* the tags a sidecar file can list
RawTags == {<<"a">>, <<" ", "a">>, <<"b">>, <<"a", ",", "b">>, <<" ">>}

\* the chunks that are given tags: the first chunk of each document
TaggedBases == {c \in ChunkPool : c.chunk_index = 0 /\ c.text.body = "X"}

\* upsert_chunks with one chunk whose metadata carries merge_tags of a
\* sidecar's tag list
UpsertTagged ==
    /\ pc = "idle"
    /\ \E base \in TaggedBases, raw \in SeqsUpTo(RawTags, MaxTags) :
          LET metadata == [base.metadata EXCEPT !.tags = merge_tags(raw)]
              chunk == [base EXCEPT !.metadata = metadata]
              r == upsert_chunks(backend, store, <<chunk>>, << <<1, 0>> >>)
          IN /\ store' = r.store
             /\ op' = [name |-> "upsert_tagged", chunks |-> <<chunk>>,
                       raised |-> r.raised, before |-> store]
    /\ UNCHANGED <<backend, files, runVars>>

\* query right after the upsert, with no filter; the upserted chunk stays
\* on record for comparison
QueryTagged ==
    /\ pc = "idle"
    /\ op.name = "upsert_tagged"
    /\ \E top_k \in 1..MaxTopK, vector \in {<<1, 0>>, <<1, 1>>} :
          LET r == query(backend, store, vector, top_k, 0, <<>>)
          IN op' = [name |-> "query_tagged", chunks |-> op.chunks,
                    top_k |-> top_k, vector |-> vector,
                    hits |-> r.hits, raised |-> r.raised]
    /\ UNCHANGED <<backend, store, files, runVars>>

NextTags == UpsertTagged \/ QueryTagged

SpecTags == Init /\ [][NextTags]_vars

\* ingests across processes, the files changing in between
NextRuns == NewProcess \/ RunIngest \/ EditFile

SpecRuns == Init /\ [][NextRuns]_vars

\* ------------------------------------------- specification: mem0 client
\* mem0_client.py: the module global _mem0_client, its lock, and the calls
\* get_mem0_client / set_mem0_client made by concurrent threads.  Every
\* action is one step of one thread: a load or store of the global, taking
\* or releasing the lock, or the call of build_mem0_client.

\* the clients build_mem0_client constructs, by invocation
Instances == <<"client1", "client2", "client3">>

\* the clients a test hands to set_mem0_client
SetClients == {"None", "injected"}

\* config.py is imported: MEM0_BASE_URL is read from the environment
LoadSettings ==
    /\ mem0_base_url = "unloaded"
    /\ mem0_base_url' \in {"None", "http://mem0"}
    /\ UNCHANGED <<backend, store, files, op, ingestVars, raceVars, procVars,
                   agentVars, mem0_client, mem0_client_lock, threads, builds>>

ClientFrame == UNCHANGED <<backend, store, files, op, ingestVars, raceVars,
                           procVars, agentVars, mem0_base_url>>

\* a thread calls get_mem0_client()
CallGet(t) ==
    /\ mem0_base_url # "unloaded"
    /\ threads[t].pc = "idle"
    /\ threads' = [threads EXCEPT ![t].pc = "check", ![t].call = "get"]
    /\ UNCHANGED <<mem0_client, mem0_client_lock, builds>>
    /\ ClientFrame

\* a thread calls set_mem0_client(client)
CallSet(t, client) ==
    /\ mem0_base_url # "unloaded"
    /\ threads[t].pc = "idle"
    /\ threads' = [threads EXCEPT ![t].pc = "set_acquire", ![t].call = "set",
                                  ![t].client = client]
    /\ UNCHANGED <<mem0_client, mem0_client_lock, builds>>
    /\ ClientFrame

\* line 148: if _mem0_client is None (read without the lock)
GetCheck(t) ==
    /\ threads[t].pc = "check"
    /\ threads' = [threads EXCEPT ![t].pc =
                      IF mem0_client = "None" THEN "acquire" ELSE "return"]
    /\ UNCHANGED <<mem0_client, mem0_client_lock, builds>>
    /\ ClientFrame

\* line 149: with _mem0_client_lock (enter)
GetAcquire(t) ==
    /\ threads[t].pc = "acquire"
    /\ mem0_client_lock = "free"
    /\ mem0_client_lock' = t
    /\ threads' = [threads EXCEPT ![t].pc = "recheck"]
    /\ UNCHANGED <<mem0_client, builds>>
    /\ ClientFrame

GetRecheckAlwaysBuild(t) ==
    /\ threads[t].pc = "recheck"
    /\ threads' = [threads EXCEPT ![t].pc = "build"]
    /\ UNCHANGED <<mem0_client, mem0_client_lock, builds>>
    /\ ClientFrame

\* line 151: if _mem0_client is None (the second check, under the lock)
GetRecheck(t) ==
    /\ threads[t].pc = "recheck"
    /\ threads' = [threads EXCEPT ![t].pc =
                      IF mem0_client = "None" THEN "build" ELSE "release"]
    /\ UNCHANGED <<mem0_client, mem0_client_lock, builds>>
    /\ ClientFrame

\* build_mem0_client: RuntimeError when MEM0_BASE_URL is not configured,
\* else a new Mem0Client
build_mem0_client(invocation) ==
    IF mem0_base_url = "None"
    THEN [raised |-> TRUE, client |-> "None"]
    ELSE [raised |-> FALSE, client |-> Instances[invocation]]

\* line 152, right-hand side: the call build_mem0_client()
GetBuild(t) ==
    /\ threads[t].pc = "build"
    /\ LET built == build_mem0_client(Len(builds) + 1) IN
        /\ builds' = Append(builds, IF built.raised THEN "RuntimeError"
                                    ELSE built.client)
        /\ threads' = [threads EXCEPT
                          ![t].pc = IF built.raised THEN "release" ELSE "assign",
                          ![t].raised = built.raised,
                          ![t].client = built.client]
    /\ UNCHANGED <<mem0_client, mem0_client_lock>>
    /\ ClientFrame

\* line 152, left-hand side: _mem0_client = <the client built>
GetAssign(t) ==
    /\ threads[t].pc = "assign"
    /\ mem0_client' = threads[t].client
    /\ threads' = [threads EXCEPT ![t].pc = "release"]
    /\ UNCHANGED <<mem0_client_lock, builds>>
    /\ ClientFrame

\* leaving the with block, normally or with the RuntimeError of the build
GetRelease(t) ==
    /\ threads[t].pc = "release"
    /\ mem0_client_lock = t
    /\ mem0_client_lock' = "free"
    /\ threads' = [threads EXCEPT ![t].pc =
                      IF threads[t].raised THEN "done" ELSE "return"]
    /\ UNCHANGED <<mem0_client, builds>>
    /\ ClientFrame

\* line 153: return _mem0_client (the global is read again, without the lock)
GetReturn(t) ==
    /\ threads[t].pc = "return"
    /\ threads' = [threads EXCEPT ![t].pc = "done", ![t].result = mem0_client]
    /\ UNCHANGED <<mem0_client, mem0_client_lock, builds>>
    /\ ClientFrame

\* line 159: with _mem0_client_lock (enter)
SetAcquire(t) ==
    /\ threads[t].pc = "set_acquire"
    /\ mem0_client_lock = "free"
    /\ mem0_client_lock' = t
    /\ threads' = [threads EXCEPT ![t].pc = "set_assign"]
    /\ UNCHANGED <<mem0_client, builds>>
    /\ ClientFrame

\* line 160: _mem0_client = client
SetAssign(t) ==
    /\ threads[t].pc = "set_assign"
    /\ mem0_client' = threads[t].client
    /\ threads' = [threads EXCEPT ![t].pc = "set_release"]
    /\ UNCHANGED <<mem0_client_lock, builds>>
    /\ ClientFrame

\* leaving the with block of set_mem0_client; the call returns None
SetRelease(t) ==
    /\ threads[t].pc = "set_release"
    /\ mem0_client_lock = t
    /\ mem0_client_lock' = "free"
    /\ threads' = [threads EXCEPT ![t].pc = "done"]
    /\ UNCHANGED <<mem0_client, builds>>
    /\ ClientFrame

NextClient ==
    \/ LoadSettings
    \/ \E t \in Threads : CallGet(t)
    \/ \E t \in Threads, client \in SetClients : CallSet(t, client)
    \/ \E t \in Threads : GetCheck(t)
    \/ \E t \in Threads : GetAcquire(t)
    \/ \E t \in Threads : GetRecheck(t)
    \/ \E t \in Threads : GetBuild(t)
    \/ \E t \in Threads : GetAssign(t)
    \/ \E t \in Threads : GetRelease(t)
    \/ \E t \in Threads : GetReturn(t)
    \/ \E t \in Threads : SetAcquire(t)
    \/ \E t \in Threads : SetAssign(t)
    \/ \E t \in Threads : SetRelease(t)

SpecClient == Init /\ [][NextClient]_vars

\* ------------------------------------------ specification: conversation
\* agent.py: WargameAssistantAgent.run_conversation against a Responses API
\* that answers every create call with an arbitrary response.

MaxRounds == 2

\* raw tool calls of a response: id and tool_name, each possibly missing
RawCall(id, tool_name) == [id |-> id, tool_name |-> tool_name]

ToolCallLists ==
    {<<>>,
     <<RawCall("memory-call", "memory_search")>>,
     <<RawCall("memory-call", "memory_search"),
       RawCall("rag-call", "search_wargame_docs")>>,
     <<RawCall("rag-call", "search_wargame_docs"),
       RawCall("rag-call", "search_wargame_docs")>>,
     <<RawCall("None", "search_wargame_docs"),
       RawCall("memory-call", "memory_search")>>,
     <<RawCall("rag-call", "search_wargame_docs"),
       RawCall("memory-call", "None")>>,
     <<RawCall("memory-call", "memory_search"),
       RawCall("rag-call", "unsupported")>>}

Statuses == {"requires_action", "completed", "finished", "None", "failed"}

\* the responses create() can return as the k-th response of a conversation
Responses(k) ==
    {Response(k, "requires_action", calls) : calls \in ToolCallLists}
        \cup {Response(k, status, <<>>) : status \in Statuses \ {"requires_action"}}

\* parse_tool_call: the id defaults to "tool-call"; ValueError without a name
parse_tool_call(raw_call) ==
    [raised |-> raw_call.tool_name = "None",
     id |-> IF raw_call.id = "None" THEN "tool-call" ELSE raw_call.id,
     tool_name |-> raw_call.tool_name]

\* LocalToolExecutor.__call__: the JSON text of the tool's result, or
\* ValueError for a tool it does not know
tool_executor(parsed) ==
    IF parsed.tool_name \in {"memory_search", "search_wargame_docs"}
    THEN [raised |-> FALSE, output |-> <<"result", parsed.tool_name>>]
    ELSE [raised |-> TRUE, output |-> <<>>]

\* one create() call as the client sees it, with the response it follows up
\* and the executor calls made for that response
Invocation(response_id, tool_outputs, answered, executed) ==
    [response_id |-> response_id, tool_outputs |-> tool_outputs,
     answered |-> answered, executed |-> executed]

AgentFrame == UNCHANGED <<backend, store, files, op, ingestVars, raceVars,
                          procVars, clientVars>>

\* lines 103-109: the payload is built and the first response requested
StartConversation(executor) ==
    /\ conv.pc = "idle"
    /\ \E response \in Responses(1) :
          conv' = [conv EXCEPT !.pc = "while",
                               !.tool_executor = executor,
                               !.response = response,
                               !.invocations = <<Invocation(0, <<>>, NoResponse, <<>>)>>]
    /\ AgentFrame

\* lines 111-116: requires_action without an executor
LoopWithoutExecutor ==
    /\ conv.pc = "while"
    /\ conv.response.status = "requires_action"
    /\ conv.tool_executor = "None"
    /\ conv' = [conv EXCEPT !.pc = "raised", !.error = "RuntimeError"]
    /\ AgentFrame

\* lines 111-121: requires_action with an executor: the tool calls are read
LoopEnter ==
    /\ conv.pc = "while"
    /\ conv.response.status = "requires_action"
    /\ conv.tool_executor # "None"
    /\ conv' = [conv EXCEPT !.pc = "for",
                            !.rest = conv.response.tool_calls,
                            !.outputs = <<>>,
                            !.executed = <<>>]
    /\ AgentFrame

\* lines 122-124: one iteration of the for loop
ForCall ==
    /\ conv.pc = "for"
    /\ conv.rest # <<>>
    /\ LET parsed == parse_tool_call(Head(conv.rest))
           run == tool_executor(parsed)
       IN  IF parsed.raised
           THEN conv' = [conv EXCEPT !.pc = "raised", !.error = "ValueError"]
           ELSE IF run.raised
           THEN conv' = [conv EXCEPT !.pc = "raised", !.error = "ValueError",
                                     !.executed = Append(@, parsed),
                                     !.history = Append(@, parsed)]
           ELSE conv' = [conv EXCEPT
                            !.rest = Tail(@),
                            !.executed = Append(@, parsed),
                            !.history = Append(@, parsed),
                            !.outputs = Append(@, [tool_call_id |-> parsed.id,
                                                   output |-> run.output])]
    /\ AgentFrame

SubmitEarly ==
    /\ conv.pc = "for"
    /\ Len(conv.invocations) <= MaxRounds
    /\ \E response \in Responses(Len(conv.invocations) + 1) :
          conv' = [conv EXCEPT
                      !.pc = "while",
                      !.response = response,
                      !.executed = <<>>,
                      !.invocations = Append(@, Invocation(conv.response.id,
                                                conv.outputs, conv.response,
                                                conv.executed))]
    /\ AgentFrame

\* line 125: the outputs are submitted and the next response requested
Submit ==
    /\ conv.pc = "for"
    /\ conv.rest = <<>>
    /\ Len(conv.invocations) <= MaxRounds
    /\ \E response \in Responses(Len(conv.invocations) + 1) :
          conv' = [conv EXCEPT
                      !.pc = "while",
                      !.response = response,
                      !.executed = <<>>,
                      !.invocations = Append(@, Invocation(conv.response.id,
                                                conv.outputs, conv.response,
                                                conv.executed))]
    /\ AgentFrame

\* lines 111, 127-130: the loop is left; the status decides between the
\* text of the response and RuntimeError
LoopExit ==
    /\ conv.pc = "while"
    /\ conv.response.status # "requires_action"
    /\ conv' = IF conv.response.status \in {"completed", "finished", "None"}
               THEN [conv EXCEPT !.pc = "returned"]
               ELSE [conv EXCEPT !.pc = "raised", !.error = "RuntimeError"]
    /\ AgentFrame

NextAgent ==
    \/ \E executor \in {"None", "LocalToolExecutor"} : StartConversation(executor)
    \/ LoopWithoutExecutor
    \/ LoopEnter
    \/ ForCall
    \/ Submit
    \/ LoopExit

SpecAgent == Init /\ [][NextAgent]_vars

\* ================================================================== claims
IsUpsert == op.name = "upsert_chunks" /\ ~op.raised
IngestUpserted == IsUpsert /\ op.by = "ingest"

\* the ids of the (chunk, vector) pairs an upsert call was given
BatchIds(chunks, embeddings) ==
    {chunks[k].id : k \in 1..ZipLen(chunks, embeddings)}

\* the indices of the records of st whose metadata document_id is d
RecordsOf(st, d) == {i \in 1..Len(st) : st[i].metadata.document_id = d}

\* a stored record carries the text, metadata and vector of (chunk, vector)
HoldsValuesOf(entry, chunk, vector) ==
    /\ entry.id = chunk.id
    /\ entry.text = chunk.text
    /\ entry.embedding = vector
    /\ entry.metadata.document_id = chunk.metadata.document_id
    /\ entry.metadata.source = chunk.metadata.source
    /\ entry.metadata.collection = chunk.metadata.collection
    /\ entry.metadata.tags = JoinTags(chunk.metadata.tags)
    /\ entry.metadata.chunk_index = chunk.chunk_index
    /\ entry.metadata.chunk_count = chunk.chunk_count

\* number of occurrences of a record in a store
Occ(st, entry) == Cardinality({i \in 1..Len(st) : st[i] = entry})

\* C1: when _ingest_file has stored a document (its upsert returned), the
\* records the store holds for that document_id are exactly the chunks of
\* this generation: same id set, each with the new text; nothing of an
\* earlier generation with another chunk count is left.
C1_ReingestLeavesNewGeneration ==
    IngestUpserted =>
        /\ {store[i].id : i \in RecordsOf(store, op.document_id)}
              = {op.chunks[k].id : k \in 1..Len(op.chunks)}
        /\ \A i \in RecordsOf(store, op.document_id) :
              \E k \in 1..Len(op.chunks) :
                 HoldsValuesOf(store[i], op.chunks[k], op.embeddings[k])

\* a re-ingest replaced a stored generation of more chunks by a smaller one
C1_Witness ==
    /\ IngestUpserted
    /\ Len(op.chunks) > 0
    /\ Cardinality(op.deleted) > Len(op.chunks)
    /\ Cardinality(RecordsOf(store, op.document_id)) = Len(op.chunks)

\* C2: upsert_chunks changes only the records whose ids are in the batch:
\* every record stored before the call under another id is still stored,
\* unchanged, after it.
C2_UpsertKeepsOtherRecords ==
    IsUpsert =>
        \A i \in 1..Len(op.before) :
           op.before[i].id \notin BatchIds(op.chunks, op.embeddings)
              => \E j \in 1..Len(store) : store[j] = op.before[i]

C4_OneRecordPerChunkId ==
    \A i, j \in 1..Len(store) : store[i].id = store[j].id => i = j

IsDelete == op.name = "delete_document" /\ op.by = "call"

\* C5: delete_document(d) raises nothing, removes every record whose metadata
\* document_id is d and keeps every other record as it was (as many copies,
\* in the same order); with no record of d the store is left as it was.
C5_DeleteRemovesExactlyTheDocument ==
    IsDelete =>
        /\ ~op.raised
        /\ RecordsOf(store, op.document_id) = {}
        /\ \A i \in 1..Len(op.before) :
              op.before[i].metadata.document_id # op.document_id
                 => Occ(store, op.before[i]) = Occ(op.before, op.before[i])
        /\ Len(store) = Len(op.before) - Cardinality(RecordsOf(op.before, op.document_id))
        /\ RecordsOf(op.before, op.document_id) = {} => store = op.before

\* a delete removed the records of one document and left another's in place
C5_Witness ==
    /\ IsDelete
    /\ RecordsOf(op.before, op.document_id) # {}
    /\ store # <<>>
    /\ Len(store) < Len(op.before)

IngestReturned == op.name = "ingest_directory"

FailedPaths(failed) == {failed[i][1] : i \in 1..Len(failed)}

\* C6: a failing file does not abort ingest_directory: while the run is
\* going the files attempted so far followed by the files still pending are
\* the listing, and the run returns a summary, without raising, having
\* called _ingest_file once for every listed file, in order, with one
\* failure entry per failed file.
C6_FailureDoesNotAbortRun ==
    /\ pc # "idle" => attempted \o pending = listing
    /\ IngestReturned =>
          /\ ~op.raised
          /\ op.attempted = op.listing
          /\ NoDup([i \in 1..Len(op.failed_files) |-> op.failed_files[i][1]])
          /\ FailedPaths(op.failed_files) \subseteq Range(op.listing)
          /\ op.summary.document_count + Len(op.failed_files) = Len(op.listing)

\* the first of two files failed and the second was ingested all the same
C6_Witness ==
    /\ IngestReturned
    /\ op.listing = <<"f1", "f2">>
    /\ FailedPaths(op.failed_files) = {"f1"}
    /\ op.summary.document_count = 1
    /\ RecordsOf(store, "d2") # {}

ChunksOfFile(path) ==
    Len(chunk_text(metadata_for_document(path), files[path]).chunks)

TokensOfFile(path) == files[path].n

RECURSIVE SumChunks(_)
SumChunks(paths) ==
    IF Len(paths) = 0 THEN 0 ELSE ChunksOfFile(Head(paths)) + SumChunks(Tail(paths))

RECURSIVE SumTokens(_)
SumTokens(paths) ==
    IF Len(paths) = 0 THEN 0 ELSE TokensOfFile(Head(paths)) + SumTokens(Tail(paths))

\* C7: the summary counts the succeeded files only: document_count is their
\* number, chunk_count and token_count are the sums of their chunks and
\* tokens, and document_count plus the failure entries is the number of
\* files listed.
C7_SummaryCountsSucceededOnly ==
    IngestReturned =>
        LET succeeded == SelectSeq(op.listing,
                            LAMBDA f : f \notin FailedPaths(op.failed_files))
        IN /\ op.summary.document_count = Len(succeeded)
           /\ op.summary.chunk_count = SumChunks(succeeded)
           /\ op.summary.token_count = SumTokens(succeeded)
           /\ op.summary.document_count + Len(op.failed_files) = Len(op.listing)
           /\ op.listing = <<>> =>
                 op.summary = [document_count |-> 0, chunk_count |-> 0,
                               token_count |-> 0]

\* one file of two chunks was ingested and one file with chunks failed
C7_Witness ==
    /\ IngestReturned
    /\ Len(op.failed_files) = 1
    /\ op.summary = [document_count |-> 1, chunk_count |-> 2, token_count |-> 1000]
    /\ \A f \in Range(Files) : files[f].n > 0

StepAt(i) == steps[i].step

\* C8: in one _ingest_file the delete of the stored chunks is called only
\* after metadata resolution, reading and chunking returned, and the
\* embedding and the upsert are called only after that delete returned.
C8_DeleteAfterChunkBeforeEmbedAndUpsert ==
    \A i \in 1..Len(steps) :
       /\ StepAt(i) = "delete" =>
             /\ i = 4
             /\ <<StepAt(1), StepAt(2), StepAt(3)>> = <<"metadata", "read", "chunk">>
             /\ \A j \in 1..3 : steps[j].ok
       /\ StepAt(i) \in {"embed", "upsert"} =>
             \E j \in 1..(i - 1) : StepAt(j) = "delete" /\ steps[j].ok
       /\ StepAt(i) = "upsert" =>
             \E j \in 1..(i - 1) : StepAt(j) = "embed" /\ steps[j].ok

\* a file went through all six calls and its upsert returned
C8_Witness ==
    /\ Len(steps) = 6
    /\ steps[6] = [step |-> "upsert", ok |-> TRUE]
    /\ IngestUpserted

IsQuery == op.name = "query" /\ ~op.raised

\* the score the backend in use assigns to a stored entry for a query vector
ScoreOf(entry, vector) ==
    IF backend = "fallback" THEN cosine_similarity(vector, entry.embedding)
    ELSE ChromaScore(vector, entry.embedding)

\* the indices of the stored records that pass both filters of the last query
Passing ==
    {i \in 1..Len(store) :
        /\ MatchesWhere(store[i], op.collections)
        /\ ~BelowMin(ScoreOf(store[i], op.vector), op.min_score)}

\* C9: every result of a query has score >= min_score and, when a non-empty
\* collections list was given, a collection in that list; when min_score is
\* above the score of every stored record the result list is empty.
C9_ResultsSatisfyFilters ==
    IsQuery =>
        /\ \A k \in 1..Len(op.hits) :
              /\ ~BelowMin(op.hits[k].score, op.min_score)
              /\ \E i \in 1..Len(store) :
                    /\ store[i].id = op.hits[k].id
                    /\ op.hits[k].score = ScoreOf(store[i], op.vector)
              /\ Len(op.collections) > 0 =>
                    op.hits[k].metadata.collection \in Range(op.collections)
        /\ (\A i \in 1..Len(store) :
               BelowMin(ScoreOf(store[i], op.vector), op.min_score))
              => op.hits = <<>>

\* a query with both filters returned some records and left out others
C9_Witness ==
    /\ IsQuery
    /\ op.min_score > 0
    /\ Len(op.collections) > 0
    /\ op.top_k >= Cardinality({i \in 1..Len(store) : MatchesWhere(store[i], op.collections)})
    /\ op.hits # <<>>
    /\ \E i \in 1..Len(store) :
          /\ MatchesWhere(store[i], op.collections)
          /\ BelowMin(ScoreOf(store[i], op.vector), op.min_score)
    /\ \E i \in 1..Len(store) : ~MatchesWhere(store[i], op.collections)

\* C10: for top_k >= 1 a query returns min(top_k, number of passing records)
\* results, each a distinct passing record, by score descending, records of
\* equal score in store order, and no passing record left out scores higher
\* than a returned one.
C10_TopKByScoreStable ==
    (IsQuery /\ op.top_k >= 1) =>
        /\ Len(op.hits) = Min(op.top_k, Cardinality(Passing))
        /\ \E f \in [1..Len(op.hits) -> Passing] :
              /\ \A k \in 1..Len(op.hits) :
                    /\ op.hits[k].id = store[f[k]].id
                    /\ op.hits[k].text = store[f[k]].text
                    /\ op.hits[k].score = ScoreOf(store[f[k]], op.vector)
              /\ \A k, l \in 1..Len(op.hits) :
                    k < l =>
                       /\ f[k] # f[l]
                       /\ ~ScoreLess(op.hits[k].score, op.hits[l].score)
                       /\ ~ScoreLess(op.hits[l].score, op.hits[k].score)
                             => f[k] < f[l]
              /\ \A p \in Passing \ Range(f) :
                    \A k \in 1..Len(op.hits) :
                       ~ScoreLess(op.hits[k].score, ScoreOf(store[p], op.vector))

\* more records pass than top_k allows; two of equal score come back in
\* store order, after a record of higher score that was stored last
C10_Witness ==
    /\ IsQuery
    /\ op.top_k >= 1
    /\ Cardinality(Passing) > op.top_k
    /\ Len(op.hits) = op.top_k
    /\ \E i, j \in 1..Len(store) :
          /\ i < j
          /\ store[i].id # store[j].id
          /\ ~ScoreLess(ScoreOf(store[i], op.vector), ScoreOf(store[j], op.vector))
          /\ ~ScoreLess(ScoreOf(store[j], op.vector), ScoreOf(store[i], op.vector))
          /\ op.hits[1].id = store[i].id

\* C11: every result of a query is a record held by the store at the time of
\* the query, with that record's text and metadata (tags as a list); a query
\* of an empty store with top_k >= 1 returns the empty list and raises nothing.
C11_ResultsAreCurrentRecords ==
    /\ IsQuery =>
          \A k \in 1..Len(op.hits) :
             \E i \in 1..Len(store) :
                /\ op.hits[k].id = store[i].id
                /\ op.hits[k].text = store[i].text
                /\ op.hits[k].metadata =
                      [store[i].metadata EXCEPT !.tags = ParseTags(@)]
    /\ (op.name = "query" /\ store = <<>> /\ op.top_k >= 1) =>
          (~op.raised /\ op.hits = <<>>)

\* a query returned every record of a store of two or more records, one of
\* them carrying tags
C11_Witness ==
    /\ IsQuery
    /\ Len(store) >= 2
    /\ Len(op.hits) = Len(store)
    /\ \E k \in 1..Len(op.hits) : op.hits[k].metadata.tags # <<>>

\* every threshold a caller can pass, in thousandths of the range [0, 1]
Thresholds == 0..1000

\* C12: the in-memory and the persistent backend score by one convention: for
\* a query vector and a stored vector both give the same score, so every
\* min_score admits the same records on both.
C12_OneScoreConvention ==
    op.name = "query" =>
        \A i \in 1..Len(store) :
           \A m \in Thresholds :
              BelowMin(cosine_similarity(op.vector, store[i].embedding), m)
                 = BelowMin(ChromaScore(op.vector, store[i].embedding), m)

\* ---------------------------------------------------- claims on chunk_text
IsChunk == op.name = "chunk_text" /\ op.by = "call"

\* the (start, end) token window of the k-th chunk of the last chunk_text call
Window(k) == <<op.result.chunks[k].text.s, op.result.chunks[k].text.e>>

NumChunks == Len(op.result.chunks)

\* C13: for a non-empty document the windows of chunk_text cover
\* [0, total_tokens) without a gap: the first starts at 0, the last ends at
\* total_tokens, and each window starts no later than the previous one ends.
C13_WindowsCoverAllTokens ==
    (IsChunk /\ op.text.n > 0) =>
        /\ NumChunks >= 1
        /\ Window(1)[1] = 0
        /\ Window(NumChunks)[2] = op.text.n
        /\ \A k \in 1..(NumChunks - 1) : Window(k + 1)[1] <= Window(k)[2]

\* a document of more than two windows whose last window ends at its last token
C13_Witness ==
    /\ IsChunk
    /\ NumChunks >= 3
    /\ Window(NumChunks)[2] = op.text.n
    /\ Window(NumChunks)[1] > 0

\* C14: each window starts exactly S = W - O tokens after the previous one,
\* consecutive windows share exactly O tokens, every window but the last
\* holds exactly W tokens and the last holds at most W.
C14_StrideAndOverlap ==
    IsChunk =>
        /\ \A k \in 1..(NumChunks - 1) :
              /\ Window(k + 1)[1]
                    = Window(k)[1] + (CHUNK_SIZE_TOKENS - CHUNK_OVERLAP_TOKENS)
              /\ Window(k)[2] - Window(k + 1)[1] = CHUNK_OVERLAP_TOKENS
              /\ Window(k)[2] - Window(k)[1] = CHUNK_SIZE_TOKENS
        /\ NumChunks >= 1 =>
              /\ Window(NumChunks)[2] - Window(NumChunks)[1] <= CHUNK_SIZE_TOKENS
              /\ Window(NumChunks)[2] - Window(NumChunks)[1] >= 1

\* three or more windows, the last one shorter than W
C14_Witness ==
    /\ IsChunk
    /\ NumChunks >= 3
    /\ Window(NumChunks)[2] - Window(NumChunks)[1] < CHUNK_SIZE_TOKENS

\* C15: every chunk of one chunk_text call reports the same chunk_count, the
\* number of chunks returned; chunk_index is 0 .. chunk_count - 1 in list
\* order; the id is "{document_id}:{chunk_index}" and ids are pairwise distinct.
C15_IndexCountAndIds ==
    IsChunk =>
        /\ \A k \in 1..NumChunks :
              /\ op.result.chunks[k].chunk_count = NumChunks
              /\ op.result.chunks[k].chunk_index = k - 1
              /\ op.result.chunks[k].id = <<op.metadata.document_id, k - 1>>
              /\ op.result.chunks[k].metadata.document_id = op.metadata.document_id
        /\ \A k, l \in 1..NumChunks :
              k # l => op.result.chunks[k].id # op.result.chunks[l].id

\* a call that returned several chunks
C15_Witness ==
    /\ IsChunk
    /\ NumChunks >= 2
    /\ op.result.chunks[NumChunks].chunk_index = NumChunks - 1

\* ceil(a / b) for a >= 0, b > 0
CeilDiv(a, b) == (a + b - 1) \div b

\* C16: chunk_text on n tokens returns token_count = n; no chunk for n = 0,
\* one chunk for 1 <= n <= W, and 1 + ceil((n - W) / S) chunks for n > W;
\* 1000 tokens give exactly the windows [0, 800) and [600, 1000).
C16_ChunkCountFormula ==
    IsChunk =>
        LET n == op.text.n
            W == CHUNK_SIZE_TOKENS
            S == CHUNK_SIZE_TOKENS - CHUNK_OVERLAP_TOKENS
        IN /\ op.result.token_count = n
           /\ n = 0 => NumChunks = 0
           /\ (1 <= n /\ n <= W) => NumChunks = 1
           /\ n > W => NumChunks = 1 + CeilDiv(n - W, S)
           /\ n = 1000 =>
                 /\ NumChunks = 2
                 /\ Window(1) = <<0, 800>>
                 /\ Window(2) = <<600, 1000>>

\* the call on 1000 tokens returned two chunks
C16_Witness ==
    /\ IsChunk
    /\ op.text.n = 1000
    /\ NumChunks = 2
    /\ op.result.token_count = 1000

\* ------------------------------------------------------- claims on tools
IsSpan == op.name = "get_document_span"

\* the indices of the stored records of the document asked for whose
\* chunk_index lies in [max(0, center - span), center + span]
InSpan ==
    {i \in 1..Len(store) :
        /\ store[i].metadata.document_id = op.document_id
        /\ store[i].metadata.chunk_index >= Max(0, op.center_chunk_index - op.span)
        /\ store[i].metadata.chunk_index <= op.center_chunk_index + op.span}

\* C17: get_document_span with span >= 0 returns exactly the stored chunks of
\* the document whose chunk_index lies in [max(0, center - span), center +
\* span], each once, by ascending chunk_index, never one of negative index;
\* for a document without stored chunks it returns the empty list, no error.
C17_SpanReturnsWindow ==
    (IsSpan /\ op.span >= 0) =>
        /\ ~op.raised
        /\ Len(op.chunks) = Cardinality(InSpan)
        /\ \E f \in [1..Len(op.chunks) -> InSpan] :
              /\ \A k, l \in 1..Len(op.chunks) : k # l => f[k] # f[l]
              /\ \A k \in 1..Len(op.chunks) :
                    /\ op.chunks[k].chunk_index = store[f[k]].metadata.chunk_index
                    /\ op.chunks[k].text = store[f[k]].text
        /\ \A k \in 1..Len(op.chunks) : op.chunks[k].chunk_index >= 0
        /\ \A k \in 1..(Len(op.chunks) - 1) :
              op.chunks[k].chunk_index <= op.chunks[k + 1].chunk_index
        /\ RecordsOf(store, op.document_id) = {} => op.chunks = <<>>

\* the store holds chunk 1 before chunk 0 of a document; a call centred on
\* chunk 0 with span 1 returned both in index order, and the store holds a
\* record the call left out
C17_Witness ==
    /\ IsSpan
    /\ op.span = 1 /\ op.center_chunk_index = 0
    /\ Len(op.chunks) = 2
    /\ op.chunks[1].chunk_index = 0 /\ op.chunks[2].chunk_index = 1
    /\ store[1].metadata.chunk_index = 1
    /\ \E i \in 1..Len(store) : store[i].metadata.document_id # op.document_id

\* C18: get_document_span with a negative span raises
\* ValueError("span must be >= 0") before it reads the store and before any
\* other effect: no correlation scope, no latency record, no log line, no
\* collection opened, and no chunk list returned.
C18_NegativeSpanRejectedFirst ==
    (IsSpan /\ op.span < 0) =>
        /\ op.raised
        /\ op.error = "span must be >= 0"
        /\ op.effects = <<>>
        /\ op.chunks = <<>>
        /\ store = op.before

\* a call with span -1 for a document that has stored chunks was rejected
C18_Witness ==
    /\ IsSpan
    /\ op.span < 0
    /\ op.raised
    /\ RecordsOf(store, op.document_id) # {}

IsSearch == op.name = "search_wargame_documents"

\* C19: the search entrypoint rejects a zero or negative top_k and a
\* min_score outside [0, 1] as an input-validation error, before the query
\* is embedded and before the store is read, and produces no result list.
C19_SearchValidatesInputs ==
    (IsSearch /\ (op.top_k <= 0 \/ op.min_score < 0 \/ op.min_score > 1000)) =>
        /\ op.raised
        /\ op.effects = <<>>
        /\ op.results = <<>>

\* -------------------------------------------- claims on concurrent ingests
RaceDone == \A w \in Workers : workers[w].pc = "done"

\* the generation a concurrent call computed from the text it read
Gen(w) == workers[w].result.chunks

SameDocument ==
    /\ workers["w1"].document_id = workers["w2"].document_id
    /\ workers["w1"].document_id # ""

\* the stored record i carries the id and text of a chunk of w's generation
FromGeneration(i, w) ==
    \E k \in 1..Len(Gen(w)) :
       store[i].id = Gen(w)[k].id /\ store[i].text = Gen(w)[k].text

\* the store holds, for w's document, exactly the chunks of w's generation
HoldsGeneration(w) ==
    LET recs == RecordsOf(store, workers[w].document_id)
    IN /\ Cardinality(recs) = Len(Gen(w))
       /\ \A k \in 1..Len(Gen(w)) :
             \E i \in recs :
                store[i].id = Gen(w)[k].id /\ store[i].text = Gen(w)[k].text

\* the store holds chunks of both generations and the whole of neither
Mixed ==
    LET recs == RecordsOf(store, workers["w1"].document_id)
    IN /\ recs # {}
       /\ ~HoldsGeneration("w1") /\ ~HoldsGeneration("w2")
       /\ \A i \in recs : FromGeneration(i, "w1") \/ FromGeneration(i, "w2")
       /\ \E i \in recs : FromGeneration(i, "w1") /\ ~FromGeneration(i, "w2")
       /\ \E i \in recs : FromGeneration(i, "w2") /\ ~FromGeneration(i, "w1")

\* the position in the schedule of a step a call takes once
Pos(w, step) ==
    CHOOSE i \in 1..Len(schedule) : schedule[i] = [w |-> w, step |-> step]

\* Both calls deleted before either wrote, and the call w with the longer
\* generation wrote first (persistent backend); or both calls appended after
\* the last clear (in-memory backend).
RacySchedule(w, v) ==
    IF backend = "chroma"
    THEN /\ Len(Gen(w)) > Len(Gen(v))
         /\ Pos(v, "delete") < Pos(w, "upsert")
         /\ Pos(w, "upsert") < Pos(v, "upsert")
    ELSE LET last == Max(Pos(w, "clear"), Pos(v, "clear"))
         IN /\ \E i \in (last + 1)..Len(schedule) :
                  schedule[i] = [w |-> w, step |-> "append"]
            /\ \E i \in (last + 1)..Len(schedule) :
                  schedule[i] = [w |-> v, step |-> "append"]

\* C20: two re-ingests of one document_id that run at once, with nothing to
\* serialise them, can interleave their delete and upsert steps so that when
\* both have returned the store holds neither generation's complete chunk
\* set: under the interleavings of RacySchedule the document's records are a
\* mix of the two generations.
C20_InterleavedReingestsMix ==
    (/\ RaceDone
     /\ SameDocument
     /\ Len(Gen("w1")) # Len(Gen("w2"))
     /\ Len(Gen("w1")) >= 1 /\ Len(Gen("w2")) >= 1
     /\ RacySchedule("w1", "w2") \/ RacySchedule("w2", "w1"))
        => Mixed

\* after a first ingest of the document, two concurrent re-ingests of it
\* have both returned and the store holds a mix of their generations
C20_Witness ==
    /\ RaceDone
    /\ SameDocument
    /\ schedule[1].w = "seed"
    /\ RacySchedule("w1", "w2")
    /\ Mixed

DistinctDocuments ==
    /\ workers["w1"].document_id # workers["w2"].document_id
    /\ workers["w1"].document_id # "" /\ workers["w2"].document_id # ""

\* C21: when concurrent ingests work on distinct document_ids, then under
\* every interleaving of their delete and upsert steps the store holds, once
\* all have returned, exactly the complete new chunk set of each of those
\* documents, one record per chunk id.
C21_DistinctDocumentsIndependent ==
    (RaceDone /\ DistinctDocuments) =>
        /\ \A w \in Workers : HoldsGeneration(w)
        /\ \A i, j \in 1..Len(store) : i # j => store[i].id # store[j].id

\* ------------------------------------------- claims on runs across processes
IsRunIngest == op.name = "run_ingest"

\* C22: the document_id resolved for a source file is the same at every
\* call for the same path and title, also in a later process and without a
\* sidecar id, so that a re-ingest of the path replaces the chunks stored by
\* the earlier ingest: afterwards every stored chunk of that source carries
\* the id just resolved.
C22_DocumentIdStable ==
    (IsRunIngest /\ op.previous # NoId) =>
        /\ op.document_id = op.previous
        /\ \A i \in 1..Len(store) :
              store[i].metadata.source = op.path
                 => store[i].metadata.document_id = op.document_id

\* C23: tags round-trip through the store: for every tag list merge_tags can
\* produce, a chunk upserted with that list and read back through query
\* carries exactly that list, same elements in the same order.
C23_TagsRoundTrip ==
    op.name = "query_tagged" =>
        \A k \in 1..Len(op.hits) :
           op.hits[k].id = op.chunks[1].id
              => op.hits[k].metadata.tags = op.chunks[1].metadata.tags

\* the position of a collection name in sorted order
Rank(name) == CHOOSE k \in 1..Len(CollectionOrder) : CollectionOrder[k] = name

\* C24: list_collections_summary reports each collection that some stored
\* chunk carries, once, in name order, and no other; its document_count is
\* the number of distinct document_ids among the stored chunks of that
\* collection.
C24_SummaryCountsDistinctDocuments ==
    op.name = "list_collections_summary" =>
        /\ {op.collections[k].name : k \in 1..Len(op.collections)}
              = {store[i].metadata.collection : i \in 1..Len(store)}
        /\ \A k, l \in 1..Len(op.collections) :
              k < l => Rank(op.collections[k].name) < Rank(op.collections[l].name)
        /\ \A k \in 1..Len(op.collections) :
              op.collections[k].document_count =
                 Cardinality({d \in DocumentIds :
                    \E i \in 1..Len(store) :
                       /\ store[i].metadata.collection = op.collections[k].name
                       /\ store[i].metadata.document_id = d})

\* two collections are listed; one holds two documents, one of them with
\* two chunks, and is reported with document_count 2
C24_Witness ==
    /\ op.name = "list_collections_summary"
    /\ Len(op.collections) >= 2
    /\ \E k \in 1..Len(op.collections) :
          /\ op.collections[k].document_count = 2
          /\ Cardinality({i \in 1..Len(store) :
                store[i].metadata.collection = op.collections[k].name}) >= 3

\* ---------------------------------------------- claims on failed re-ingests
\* _ingest_file has just raised: the last call it made failed
FileJustFailed ==
    /\ pc = "loop"
    /\ steps # <<>>
    /\ ~steps[Len(steps)].ok

\* the document of the file whose ingest failed
FailedDocument == metadata_for_document(attempted[Len(attempted)]).document_id

\* the store held chunks of that document when _ingest_file was entered
WasStored == RecordsOf(op.start, FailedDocument) # {}

\* C25 (as claimed): if the re-ingest of a stored document fails at any step,
\* the store is as it was before the attempt: the document's earlier chunks
\* and those of every other document are still there.
C25_FailedReingestLeavesStore ==
    (FileJustFailed /\ WasStored) => store = op.start

\* C25 (amended): a re-ingest that fails before its delete_document call has
\* returned leaves the store as it was; one that fails afterwards (embed or
\* upsert) leaves it without any chunk of that document and with the chunks
\* of every other document as before.
C25_FailedReingestAfterDeleteLosesDocument ==
    (FileJustFailed /\ WasStored) =>
        IF \E k \in 1..Len(steps) : steps[k] = [step |-> "delete", ok |-> TRUE]
        THEN store = SelectSeq(op.start,
                               LAMBDA entry : entry.metadata.document_id # FailedDocument)
        ELSE store = op.start

\* the embedding call of a re-ingest failed: the document's chunks are gone,
\* another document's chunks are still stored
C25_Witness ==
    /\ FileJustFailed
    /\ WasStored
    /\ steps[Len(steps)].step = "embed"
    /\ RecordsOf(store, FailedDocument) = {}
    /\ store # <<>>

\* ------------------------------------------------- claims on the mem0 client
GetReturned(t) ==
    /\ threads[t].call = "get" /\ threads[t].pc = "done" /\ ~threads[t].raised

NoSetCall == \A t \in Threads : threads[t].call # "set"

ClientsBuilt == {k \in 1..Len(builds) : builds[k] # "RuntimeError"}

C27_GetNeverReturnsNone ==
    \A t \in Threads : GetReturned(t) => threads[t].result # "None"

\* ---------------------------------------------- claims on run_conversation
\* the follow-up requests: every create() call after the first
FollowUps == {k \in 2..Len(conv.invocations) : TRUE}

CallId(raw_call) == IF raw_call.id = "None" THEN "tool-call" ELSE raw_call.id

\* the executor calls recorded with the requests, in order
RECURSIVE ExecutedFor(_)
ExecutedFor(invocations) ==
    IF invocations = <<>> THEN <<>>
    ELSE Head(invocations).executed \o ExecutedFor(Tail(invocations))

\* C28: every follow-up request answers a requires_action response, and by
\* the time it is made the executor has been called once per requested tool
\* call, in the order given, and the request carries one output per call in
\* that order, keyed by the call's id ("tool-call" for a call without one);
\* the executor is called for nothing else; without an executor no tool is
\* executed and a requires_action response ends in RuntimeError; text is
\* returned only when the last response is completed, finished or has no
\* status.
C28_ToolCallsAnsweredInOrder ==
    /\ \A k \in FollowUps :
          LET inv == conv.invocations[k]
              calls == inv.answered.tool_calls
          IN  /\ inv.answered.status = "requires_action"
              /\ inv.response_id = inv.answered.id
              /\ Len(inv.executed) = Len(calls)
              /\ Len(inv.tool_outputs) = Len(calls)
              /\ \A i \in 1..Len(calls) :
                    /\ inv.executed[i].id = CallId(calls[i])
                    /\ inv.executed[i].tool_name = calls[i].tool_name
                    /\ inv.tool_outputs[i].tool_call_id = CallId(calls[i])
                    /\ inv.tool_outputs[i].output = <<"result", calls[i].tool_name>>
    /\ conv.history = ExecutedFor(conv.invocations) \o conv.executed
    /\ conv.tool_executor = "None" =>
          /\ conv.history = <<>>
          /\ FollowUps = {}
          /\ (conv.response.status = "requires_action" /\ conv.pc # "while") =>
                (conv.pc = "raised" /\ conv.error = "RuntimeError")
    /\ conv.pc = "returned" =>
          conv.response.status \in {"completed", "finished", "None"}

\* two rounds of tool calls were answered, the second with a call that has no
\* id of its own, and the text of a completed response was returned
C28_Witness ==
    /\ conv.pc = "returned"
    /\ conv.response.status = "completed"
    /\ Len(conv.invocations) = 3
    /\ Len(conv.invocations[2].tool_outputs) = 2
    /\ Len(conv.invocations[3].answered.tool_calls) = 2
    /\ conv.invocations[3].answered.tool_calls[1].id = "None"
    /\ Len(conv.history) = 4

\* ------------------------------------------- claims on the order of filters
\* the candidates of the last query with the scores of the running backend
ScoredCandidates ==
    LET cand == SelectSeq(store, LAMBDA entry : MatchesWhere(entry, op.collections))
    IN [i \in 1..Len(cand) |->
          SearchResult(cand[i],
                       IF backend = "fallback"
                       THEN cosine_similarity(op.vector, cand[i].embedding)
                       ELSE ChromaScore(op.vector, cand[i].embedding))]

PassingCandidates == {i \in 1..Len(ScoredCandidates) :
               ~BelowMin(ScoredCandidates[i].score, op.min_score)}

\* C29: for every store content, top_k >= 1 and min_score, truncating the
\* nearest-first candidates to top_k and then dropping those below min_score
\* gives the list that dropping first and truncating afterwards gives, and
\* it is the list query returned.
C29_FilterAndTruncateCommute ==
    (op.name = "query" /\ op.top_k >= 1) =>
        /\ TruncateThenFilter(ScoredCandidates, op.top_k, op.min_score)
              = FilterThenTruncate(ScoredCandidates, op.top_k, op.min_score)
        /\ op.hits = FilterThenTruncate(ScoredCandidates, op.top_k, op.min_score)
        /\ op.hits = TruncateThenFilter(ScoredCandidates, op.top_k, op.min_score)

\* a query whose threshold drops a candidate and whose top_k cuts the rest:
\* more candidates pass min_score than top_k admits, and the first stored
\* candidate is not among the nearest
C29_Witness ==
    /\ op.name = "query" /\ op.top_k >= 1 /\ ~op.raised
    /\ Cardinality(PassingCandidates) > op.top_k
    /\ Cardinality(PassingCandidates) < Len(ScoredCandidates)
    /\ 1 \notin PassingCandidates
    /\ Len(op.hits) = op.top_k

\* ------------------------------------------------ claims on span chunk ids
\* C30: every chunk get_document_span returns carries the id of the stored
\* record it was built from, the pair (document_id, chunk_index) that query
\* reports for that record.
C30_SpanChunkCarriesStoredId ==
    (op.name = "get_document_span" /\ ~op.raised) =>
        \A k \in 1..Len(op.chunks) :
            /\ op.chunks[k].id = <<op.document_id, op.chunks[k].chunk_index>>
            /\ \E i \in 1..Len(store) :
                  /\ store[i].id = op.chunks[k].id
                  /\ store[i].text = op.chunks[k].text

====
